---- MODULE Spec2Model ----
(***************************************************************************)
(* A model of the easyform backend: the form validation service, the       *)
(* submission service with its submission protection, and the draft        *)
(* service, together with the two mongoose collections they read and       *)
(* write.                                                                  *)
(*                                                                         *)
(* JavaScript strings are sequences of one-character TLA+ strings, so that *)
(* trimming and stripping are computed and not assumed.  Opaque tokens      *)
(* (session ids, ip addresses, question types) are TLA+ strings.  Times are *)
(* milliseconds since the start of the run, as Date.getTime() gives them.  *)
(***************************************************************************)
EXTENDS Integers, Sequences, FiniteSets, TLC

VARIABLES
    strictQuery,   \* whether the mongoose build strips filter paths the schema lacks
    now,           \* the wall clock, new Date().getTime()
    submissions,   \* the FormSubmission collection, in insertion order
    drafts,        \* the DraftSubmission collection
    nextId,        \* the next ObjectId the store hands out
    accepted,      \* history: the submitForm calls that returned success
    last,          \* history: the last service call and its response
    arg,           \* the input of the pure function under check
    ret            \* its result

vars == <<strictQuery, now, submissions, drafts, nextId, accepted, last, arg, ret>>

(***************************************************************************)
(* Bounds of the model                                                     *)
(***************************************************************************)
MaxStored == 2          \* stored FormSubmissions in Spec
MaxTicks == 1           \* clock ticks in Spec
MaxQuestions == 2       \* questions of an enumerated questionnaire

TickMs == 15 * 1000     \* one clock tick of Spec

(***************************************************************************)
(* JavaScript values                                                       *)
(***************************************************************************)
Undefined == "undefined"

Truthy(token) == token \notin {Undefined, ""}

Str(s) == [t |-> "string", v |-> s]
Null == [t |-> "null", v |-> <<>>]
Undef == [t |-> "undefined", v |-> <<>>]
Num == [t |-> "number", v |-> <<>>]

Whitespace == {" "}

RECURSIVE TrimStart(_)
TrimStart(s) ==
    IF s # <<>> /\ Head(s) \in Whitespace THEN TrimStart(Tail(s)) ELSE s

RECURSIVE TrimEnd(_)
TrimEnd(s) ==
    IF s # <<>> /\ s[Len(s)] \in Whitespace
    THEN TrimEnd(SubSeq(s, 1, Len(s) - 1))
    ELSE s

\* String.prototype.trim
Trim(s) == TrimEnd(TrimStart(s))

IsAngle(c) == c \in {"<", ">"}

\* s.replace(/[<>]/g, '')
StripAngles(s) == SelectSeq(s, LAMBDA c : ~IsAngle(c))

(***************************************************************************)
(* FormValidationService                                                   *)
(***************************************************************************)
MAX_QUESTIONNAIRE_LENGTH == 50
MAX_ANSWER_LENGTH == 1000

QuestionType == {"text", "email", "multiple-choice"}

Ok == [kind |-> "ok", ref |-> <<>>]
Rejection(kind, ref) == [kind |-> kind, ref |-> ref]

NotSpaceOrAt(s) == s # <<>> /\ \A i \in 1..Len(s) : s[i] \notin (Whitespace \cup {"@"})

\* /^[^\s@]+@[^\s@]+\.[^\s@]+$/.test(s)
EMAIL_REGEX(s) ==
    \E i \in {k \in 1..Len(s) : s[k] = "@"} :
      \E j \in {k \in (i + 1)..Len(s) : s[k] = "."} :
        /\ NotSpaceOrAt(SubSeq(s, 1, i - 1))
        /\ NotSpaceOrAt(SubSeq(s, i + 1, j - 1))
        /\ NotSpaceOrAt(SubSeq(s, j + 1, Len(s)))

\* mutant: an id is compared with the id of the question before it only
RECURSIVE validateQuestionsFrom_AdjacentOnly(_, _, _)
validateQuestionsFrom_AdjacentOnly(questions, i, questionIds) ==
    IF i > Len(questions) THEN Ok
    ELSE LET question == questions[i] IN
        IF question.id = <<>>
        THEN Rejection("Each question must have a valid id", <<>>)
        ELSE IF question.id \in questionIds
        THEN Rejection("Duplicate question id", question.id)
        ELSE IF question.type \notin QuestionType
        THEN Rejection("Invalid question type", <<>>)
        ELSE IF question.title = <<>>
        THEN Rejection("Each question must have a title", <<>>)
        ELSE IF question.type = "multiple-choice" /\ question.options = <<>>
        THEN Rejection("Multiple choice questions must have options", <<>>)
        ELSE validateQuestionsFrom_AdjacentOnly(questions, i + 1, {question.id})

\* the for loop of validateQuestions from question i on, questionIds being the
\* ids seen so far
RECURSIVE validateQuestionsFrom(_, _, _)
validateQuestionsFrom(questions, i, questionIds) ==
    IF i > Len(questions) THEN Ok
    ELSE LET question == questions[i] IN
        IF question.id = <<>>
        THEN Rejection("Each question must have a valid id", <<>>)
        ELSE IF question.id \in questionIds
        THEN Rejection("Duplicate question id", question.id)
        ELSE IF question.type \notin QuestionType
        THEN Rejection("Invalid question type", <<>>)
        ELSE IF question.title = <<>>
        THEN Rejection("Each question must have a title", <<>>)
        ELSE IF question.type = "multiple-choice" /\ question.options = <<>>
        THEN Rejection("Multiple choice questions must have options", <<>>)
        ELSE validateQuestionsFrom(questions, i + 1, questionIds \cup {question.id})

validateQuestions(questions) ==
    IF Len(questions) = 0
    THEN Rejection("At least one question is required", <<>>)
    ELSE IF Len(questions) > MAX_QUESTIONNAIRE_LENGTH
    THEN Rejection("Maximum questions allowed", <<>>)
    ELSE validateQuestionsFrom(questions, 1, {})

IsEmptyAnswer(answer) ==
    answer.t \in {"undefined", "null"} \/ answer = Str(<<>>)

validateAnswerByType(question, answer) ==
    IF question.type = "text"
    THEN IF answer.t # "string"
         THEN Rejection("Answer must be a string", question.title)
         ELSE IF Len(answer.v) > MAX_ANSWER_LENGTH
         THEN Rejection("Answer is too long", question.title)
         ELSE Ok
    ELSE IF question.type = "email"
    THEN IF answer.t # "string"
         THEN Rejection("Answer must be a string", question.title)
         ELSE IF ~EMAIL_REGEX(answer.v)
         THEN Rejection("Answer must be a valid email", question.title)
         ELSE Ok
    ELSE IF question.type = "multiple-choice"
    THEN IF answer.t # "string"
         THEN Rejection("Answer must be a string", question.title)
         ELSE IF \A k \in 1..Len(question.options) : question.options[k] # answer.v
         THEN Rejection("Answer must be one of the provided options", question.title)
         ELSE Ok
    ELSE Rejection("Unknown question type", <<>>)

\* questionMap.get(questionId): the question with that id, <<>> when there is none
questionMapGet(questions, questionId) ==
    SelectSeq(questions, LAMBDA q : q.id = questionId)

\* names that every plain object inherits from Object.prototype
ObjectPrototypeKeys ==
    {<<"c", "o", "n", "s", "t", "r", "u", "c", "t", "o", "r">>,
     <<"t", "o", "S", "t", "r", "i", "n", "g">>,
     <<"v", "a", "l", "u", "e", "O", "f">>}

\* key in answers: an own key of the object or a name it inherits
HasKey(answers, key) ==
    \/ \E i \in 1..Len(answers) : answers[i].k = key
    \/ key \in ObjectPrototypeKeys

\* mutant: an empty answer to an optional question is checked against the type
RECURSIVE validateEntriesFrom_NoSkip(_, _, _)
validateEntriesFrom_NoSkip(answers, questions, i) ==
    IF i > Len(answers) THEN Ok
    ELSE LET found == questionMapGet(questions, answers[i].k)
             answer == answers[i].v
         IN  IF found = <<>>
             THEN Rejection("Answer provided for unknown question", answers[i].k)
             ELSE LET question == found[Len(found)] IN
                 IF question.required /\ IsEmptyAnswer(answer)
                 THEN Rejection("Required question must be answered", question.title)
                 ELSE IF validateAnswerByType(question, answer) # Ok
                 THEN validateAnswerByType(question, answer)
                 ELSE validateEntriesFrom_NoSkip(answers, questions, i + 1)

\* the first for loop of validateAnswers from entry i on
RECURSIVE validateEntriesFrom(_, _, _)
validateEntriesFrom(answers, questions, i) ==
    IF i > Len(answers) THEN Ok
    ELSE LET found == questionMapGet(questions, answers[i].k)
             answer == answers[i].v
         IN  IF found = <<>>
             THEN Rejection("Answer provided for unknown question", answers[i].k)
             ELSE LET question == found[Len(found)] IN
                 IF question.required /\ IsEmptyAnswer(answer)
                 THEN Rejection("Required question must be answered", question.title)
                 ELSE IF IsEmptyAnswer(answer)
                 THEN validateEntriesFrom(answers, questions, i + 1)
                 ELSE IF validateAnswerByType(question, answer) # Ok
                 THEN validateAnswerByType(question, answer)
                 ELSE validateEntriesFrom(answers, questions, i + 1)

\* the second for loop of validateAnswers from question i on
RECURSIVE validateRequiredFrom(_, _, _)
validateRequiredFrom(answers, questions, i) ==
    IF i > Len(questions) THEN Ok
    ELSE IF questions[i].required /\ ~HasKey(answers, questions[i].id)
    THEN Rejection("Required question is missing", questions[i].title)
    ELSE validateRequiredFrom(answers, questions, i + 1)

validateAnswers(answers, questions) ==
    IF validateEntriesFrom(answers, questions, 1) # Ok
    THEN validateEntriesFrom(answers, questions, 1)
    ELSE validateRequiredFrom(answers, questions, 1)

validateEmailIfPresent(email) ==
    IF email.t = "string" /\ email.v # <<>> /\ ~EMAIL_REGEX(email.v)
    THEN Rejection("Invalid email format", <<>>)
    ELSE Ok

validateFormSubmission(submission) ==
    IF validateQuestions(submission.questions) # Ok
    THEN validateQuestions(submission.questions)
    ELSE IF validateAnswers(submission.answers, submission.questions) # Ok
    THEN validateAnswers(submission.answers, submission.questions)
    ELSE validateEmailIfPresent(submission.userEmail)

\* mutant: the replace without the g flag, which removes the first match only
sanitizeString_FirstAngleOnly(s) ==
    LET t == Trim(s)
        angles == {k \in 1..Len(t) : IsAngle(t[k])}
    IN  IF angles = {} THEN t
        ELSE LET first == CHOOSE k \in angles : \A m \in angles : k <= m
             IN  SubSeq(t, 1, first - 1) \o SubSeq(t, first + 1, Len(t))

\* sanitizeInput on a string
sanitizeString(s) == StripAngles(Trim(s))

Obj(entries) == [t |-> "object", v |-> entries]
Arr(elements) == [t |-> "array", v |-> elements]
Bool == [t |-> "boolean", v |-> <<>>]

\* the key Object.entries gives to the element at index i of an array
IndexKey(i) == <<(<<"0", "1", "2", "3", "4", "5", "6", "7", "8", "9">>)[i + 1]>>

\* Object.entries(input) of an object or an array
Entries(input) ==
    IF input.t = "array"
    THEN [i \in 1..Len(input.v) |-> [k |-> IndexKey(i - 1), v |-> input.v[i]]]
    ELSE input.v

\* sanitizeInput on a value: a string, an object or array, or anything else
RECURSIVE sanitizeInput(_)
sanitizeInput(input) ==
    IF input.t = "string" THEN Str(sanitizeString(input.v))
    ELSE IF input.t \in {"object", "array"}
    THEN Obj([i \in 1..Len(Entries(input)) |->
                 [k |-> Entries(input)[i].k, v |-> sanitizeInput(Entries(input)[i].v)]])
    ELSE input

\* sanitizeInput on an answer value
sanitizeValue(value) == sanitizeInput(value)

\* sanitizeInput on a question object: every value is sanitized, the keys are kept
sanitizeQuestion(q) ==
    [id |-> sanitizeString(q.id),
     type |-> q.type,
     title |-> sanitizeString(q.title),
     required |-> q.required,
     options |-> [k \in 1..Len(q.options) |-> sanitizeString(q.options[k])]]

\* mutant: the answers are stored as they were submitted
sanitizeAnswers_Unsanitized(answers) == answers

\* sanitizeInput on the answers object
sanitizeAnswers(answers) ==
    [i \in 1..Len(answers) |-> [k |-> answers[i].k, v |-> sanitizeValue(answers[i].v)]]


(***************************************************************************)
(* The mongoose layer of the FormSubmission collection.  A document or an  *)
(* update is cast to the schema before it reaches the store: with the      *)
(* default strict option a path the schema does not declare is dropped.    *)
(* A filter is a set of conditions [path, op, val]; a build whose          *)
(* strictQuery is on drops the conditions on undeclared paths as well.     *)
(***************************************************************************)
FormSubmissionPaths ==
    {"formId", "questions", "answers", "userEmail", "userAgent", "ipAddress",
     "submittedAt", "isProcessed", "processedAt", "metadata"}

\* new this.formSubmissionModel(obj): the declared paths of obj, and the _id
castDocument(obj, id) ==
    [p \in ((DOMAIN obj \cap FormSubmissionPaths) \cup {"_id", "isProcessed"}) |->
        IF p = "_id" THEN id
        ELSE IF p = "isProcessed" THEN FALSE
        ELSE obj[p]]

castFilter(filter) ==
    IF strictQuery
    THEN {c \in filter : c.path[1] \in FormSubmissionPaths}
    ELSE filter

HasPath(doc, path) ==
    /\ path[1] \in DOMAIN doc
    /\ Len(path) > 1 => path[2] \in DOMAIN doc[path[1]]

GetPath(doc, path) ==
    IF Len(path) > 1 THEN doc[path[1]][path[2]] ELSE doc[path[1]]

Matches(doc, c) ==
    /\ HasPath(doc, c.path)
    /\ IF c.op = "$gte" THEN GetPath(doc, c.path) >= c.val
       ELSE GetPath(doc, c.path) = c.val

\* Model.find(filter) and Model.countDocuments(filter): the positions of
\* the matching documents
find(collection, filter) ==
    {i \in 1..Len(collection) : \A c \in castFilter(filter) : Matches(collection[i], c)}

\* .sort({ lastSubmissionAttempt: -1 }): the positions that may come first, a
\* document without the field sorting below every document that has it
sortedFirst(collection, found) ==
    LET with == {i \in found : "lastSubmissionAttempt" \in DOMAIN collection[i]}
    IN  IF with = {} THEN found
        ELSE {i \in with : \A j \in with :
                collection[j].lastSubmissionAttempt <= collection[i].lastSubmissionAttempt}

\* the update document cast to the schema
castUpdate(update) ==
    [inc |-> [p \in (DOMAIN update.inc \cap FormSubmissionPaths) |-> update.inc[p]],
     set |-> [p \in (DOMAIN update.set \cap FormSubmissionPaths) |-> update.set[p]]]

applyUpdate(doc, update) ==
    [p \in (DOMAIN doc \cup DOMAIN update.inc \cup DOMAIN update.set) |->
        IF p \in DOMAIN update.set THEN update.set[p]
        ELSE IF p \in DOMAIN update.inc
        THEN (IF p \in DOMAIN doc THEN doc[p] + update.inc[p] ELSE update.inc[p])
        ELSE doc[p]]

\* Model.updateOne({ _id }, update)
updateOne(collection, i, update) ==
    [collection EXCEPT ![i] = applyUpdate(collection[i], castUpdate(update))]


(***************************************************************************)
(* FormsService                                                            *)
(***************************************************************************)
RAPID_SUBMISSION_MS == 30000
MAX_RECENT_ATTEMPTS == 3
MAX_RECENT_IP_SUBMISSIONS == 10

FiveMinutes == 5 * 60 * 1000

NoError == [class |-> "none", message |-> ""]
HttpException(message) == [class |-> "HttpException", message |-> message]
BadRequestException(message) == [class |-> "BadRequestException", message |-> message]
NotFoundException(message) == [class |-> "NotFoundException", message |-> message]
\* what a failing store call throws
StoreError == [class |-> "Error", message |-> "store failure"]
\* reading a property of undefined
TypeError == [class |-> "Error", message |-> "Cannot read properties of undefined"]

sessionFilter(sessionId, fiveMinutesAgo) ==
    {[path |-> <<"sessionId">>, op |-> "$eq", val |-> sessionId],
     [path |-> <<"lastSubmissionAttempt">>, op |-> "$gte", val |-> fiveMinutesAgo]}

ipFilter(ipAddress, fiveMinutesAgo) ==
    {[path |-> <<"metadata", "ipAddress">>, op |-> "$eq", val |-> ipAddress],
     [path |-> <<"lastSubmissionAttempt">>, op |-> "$gte", val |-> fiveMinutesAgo]}

attemptUpdate(t) ==
    [inc |-> [submissionAttempts |-> 1], set |-> [lastSubmissionAttempt |-> t]]

\* the positions recentSubmissions[0] may be, {0} when recentSubmissions is empty
recentFirst(collection, sessionId, t) ==
    LET recentSubmissions == find(collection, sessionFilter(sessionId, t - FiveMinutes))
    IN  IF recentSubmissions = {} THEN {0}
        ELSE sortedFirst(collection, recentSubmissions)

\* checkSubmissionProtection up to the counter update; first is the position of
\* recentSubmissions[0], fail the store call that fails in this request
checkSession(collection, sessionId, t, first, fail) ==
    LET recentSubmissions == find(collection, sessionFilter(sessionId, t - FiveMinutes))
        out(e, c, ops) == [error |-> e, collection |-> c, ops |-> ops]
    IN  IF fail = "find" THEN out(StoreError, collection, <<"find">>)
        ELSE IF recentSubmissions = {} THEN out(NoError, collection, <<"find">>)
        ELSE IF "lastSubmissionAttempt" \notin DOMAIN collection[first]
        THEN out(TypeError, collection, <<"find">>)
        ELSE IF t - collection[first].lastSubmissionAttempt < RAPID_SUBMISSION_MS
        THEN out(HttpException("Please wait before submitting again"),
                 collection, <<"find">>)
        ELSE IF Cardinality(recentSubmissions) >= MAX_RECENT_ATTEMPTS
        THEN out(HttpException("Too many submission attempts"), collection, <<"find">>)
        ELSE IF fail = "updateOne"
        THEN out(StoreError, collection, <<"find", "updateOne">>)
        ELSE out(NoError, updateOne(collection, first, attemptUpdate(t)),
                 <<"find", "updateOne">>)

\* the IP-based part of checkSubmissionProtection
checkIp(collection, ipAddress, t, fail) ==
    LET recentIpSubmissions ==
            Cardinality(find(collection, ipFilter(ipAddress, t - FiveMinutes)))
    IN  IF ~Truthy(ipAddress) THEN [error |-> NoError, ops |-> <<>>]
        ELSE IF fail = "countDocuments"
        THEN [error |-> StoreError, ops |-> <<"countDocuments">>]
        ELSE IF recentIpSubmissions >= MAX_RECENT_IP_SUBMISSIONS
        THEN [error |-> HttpException("Too many submissions from this IP address"),
              ops |-> <<"countDocuments">>]
        ELSE [error |-> NoError, ops |-> <<"countDocuments">>]

checkSubmissionProtection(collection, sessionId, ipAddress, t, first, fail) ==
    LET session == checkSession(collection, sessionId, t, first, fail)
        ip == checkIp(session.collection, ipAddress, t, fail)
    IN  IF session.error # NoError THEN session
        ELSE [error |-> ip.error, collection |-> session.collection,
              ops |-> session.ops \o ip.ops]

\* mutant: the protection runs whether or not a sessionId was supplied
protectionApplies_Always(submissionData) == TRUE

\* if (submissionData.sessionId)
protectionApplies(submissionData) == Truthy(submissionData.sessionId)

\* metadata?.ipAddress
ipAddressOf(metadata) ==
    IF "ipAddress" \in DOMAIN metadata THEN metadata.ipAddress ELSE Undefined

\* mutant: { version, source, convertedFromDraft, ...metadata }
mergeMetadata_CallerWins(metadata, submissionData) ==
    LET own == [version |-> "1.0.0", source |-> "easyform-frontend",
                convertedFromDraft |-> submissionData.convertFromDraft]
    IN  [k \in (DOMAIN metadata \cup DOMAIN own) |->
            IF k \in DOMAIN metadata THEN metadata[k] ELSE own[k]]

\* { ...metadata, version, source, convertedFromDraft }
mergeMetadata(metadata, submissionData) ==
    LET own == [version |-> "1.0.0", source |-> "easyform-frontend",
                convertedFromDraft |-> submissionData.convertFromDraft]
    IN  [k \in (DOMAIN metadata \cup DOMAIN own) |->
            IF k \in DOMAIN own THEN own[k] ELSE metadata[k]]

\* the object handed to new this.formSubmissionModel(...)
newFormSubmission(submissionData, metadata, t) ==
    [formId |-> submissionData.formId,
     questions |-> [i \in 1..Len(submissionData.questions) |->
                       sanitizeQuestion(submissionData.questions[i])],
     answers |-> sanitizeAnswers(submissionData.answers),
     userEmail |-> submissionData.userEmail,
     convertFromDraft |-> submissionData.convertFromDraft,
     submittedAt |-> t,
     sessionId |-> submissionData.sessionId,
     isDraft |-> FALSE,
     draftSessionId |-> IF submissionData.convertFromDraft
                        THEN submissionData.sessionId ELSE Undefined,
     submissionAttempts |-> 1,
     lastSubmissionAttempt |-> t,
     metadata |-> mergeMetadata(metadata, submissionData)]

\* draftSubmissionModel.deleteOne({ sessionId })
deleteOneDraft(collection, sessionId) ==
    LET hit == {i \in 1..Len(collection) : collection[i].sessionId = sessionId}
        at == CHOOSE i \in hit : \A j \in hit : i <= j
    IN  IF hit = {} THEN collection
        ELSE SubSeq(collection, 1, at - 1) \o SubSeq(collection, at + 1, Len(collection))

\* mutant: cleanupConvertedDraft lets the failure of the delete escape
cleanupConvertedDraft_Throws(collection, sessionId, fail) ==
    IF fail = "deleteOne"
    THEN [error |-> StoreError, collection |-> collection]
    ELSE [error |-> NoError, collection |-> deleteOneDraft(collection, sessionId)]

\* cleanupConvertedDraft: a failing delete is logged and not thrown
cleanupConvertedDraft(collection, sessionId, fail) ==
    IF fail = "deleteOne"
    THEN [error |-> NoError, collection |-> collection]
    ELSE [error |-> NoError, collection |-> deleteOneDraft(collection, sessionId)]

Response(thrown, success, message, errors, submissionId) ==
    [thrown |-> thrown, success |-> success, message |-> message, errors |-> errors,
     submissionId |-> submissionId]

\* mutant: the catch block turns every error into the failure envelope
submitFormCatch_AlwaysEnvelope(error) ==
    Response(NoError, FALSE, "Form submission failed", error.message, 0)

\* the catch block of submitForm
submitFormCatch(error) ==
    IF error.class \in {"BadRequestException", "HttpException"}
    THEN Response(error, FALSE, "", "", 0)
    ELSE Response(NoError, FALSE, "Form submission failed", error.message, 0)

\* mutant: the draft is deleted before the insert
submitValidated_CleansFirst(submissionData, metadata, t, id, first, fail) ==
    LET guard == IF protectionApplies(submissionData)
                 THEN checkSubmissionProtection(submissions, submissionData.sessionId,
                                                ipAddressOf(metadata), t, first, fail)
                 ELSE [error |-> NoError, collection |-> submissions, ops |-> <<>>]
        formSubmission == castDocument(newFormSubmission(submissionData, metadata, t), id)
        saved == Append(guard.collection, formSubmission)
        converting == submissionData.convertFromDraft /\ Truthy(submissionData.sessionId)
        cleanup == IF converting
                   THEN cleanupConvertedDraft(drafts, submissionData.sessionId, fail)
                   ELSE [error |-> NoError, collection |-> drafts]
        cleanupOps == IF converting THEN <<"deleteOne">> ELSE <<>>
        out(r, s, d, ops) == [response |-> r, submissions |-> s, drafts |-> d, ops |-> ops]
    IN  IF guard.error # NoError
        THEN out(submitFormCatch(guard.error), guard.collection, drafts, guard.ops)
        ELSE IF fail = "save"
        THEN out(submitFormCatch(StoreError), guard.collection, cleanup.collection,
                 guard.ops \o cleanupOps \o <<"save">>)
        ELSE out(Response(NoError, TRUE, "Form submitted successfully", "", id),
                 saved, cleanup.collection, guard.ops \o cleanupOps \o <<"save">>)

\* submitForm after the validation: the protection, the insert and the draft
\* cleanup, with the response, the two collections and the store calls made
submitValidated(submissionData, metadata, t, id, first, fail) ==
    LET guard == IF protectionApplies(submissionData)
                 THEN checkSubmissionProtection(submissions, submissionData.sessionId,
                                                ipAddressOf(metadata), t, first, fail)
                 ELSE [error |-> NoError, collection |-> submissions, ops |-> <<>>]
        formSubmission == castDocument(newFormSubmission(submissionData, metadata, t), id)
        saved == Append(guard.collection, formSubmission)
        converting == submissionData.convertFromDraft /\ Truthy(submissionData.sessionId)
        cleanup == IF converting
                   THEN cleanupConvertedDraft(drafts, submissionData.sessionId, fail)
                   ELSE [error |-> NoError, collection |-> drafts]
        cleanupOps == IF converting THEN <<"deleteOne">> ELSE <<>>
        out(r, s, d, ops) == [response |-> r, submissions |-> s, drafts |-> d, ops |-> ops]
    IN  IF guard.error # NoError
        THEN out(submitFormCatch(guard.error), guard.collection, drafts, guard.ops)
        ELSE IF fail = "save"
        THEN out(submitFormCatch(StoreError), guard.collection, drafts,
                 guard.ops \o <<"save">>)
        ELSE IF cleanup.error # NoError
        THEN out(submitFormCatch(cleanup.error), saved, cleanup.collection,
                 guard.ops \o <<"save">> \o cleanupOps)
        ELSE out(Response(NoError, TRUE, "Form submitted successfully", "", id),
                 saved, cleanup.collection, guard.ops \o <<"save">> \o cleanupOps)

\* mutant: the protection, the insert and the cleanup run before the validation
submitForm_ValidatesLast(submissionData, metadata, t, id, first, fail) ==
    LET validation == validateFormSubmission(submissionData)
        done == submitValidated(submissionData, metadata, t, id, first, fail)
    IN  IF validation # Ok
        THEN [done EXCEPT !.response = submitFormCatch(BadRequestException(validation.kind))]
        ELSE done

\* submitForm as a whole
submitForm(submissionData, metadata, t, id, first, fail) ==
    LET validation == validateFormSubmission(submissionData) IN
    IF validation # Ok
    THEN [response |-> submitFormCatch(BadRequestException(validation.kind)),
          submissions |-> submissions, drafts |-> drafts, ops |-> <<>>]
    ELSE submitValidated(submissionData, metadata, t, id, first, fail)

\* an Error the service constructs in a catch block
ServiceError(message) == [class |-> "Error", message |-> message]

\* the orders in which a descending sort may return the documents at the
\* positions in found, key giving the sort key of each: no document stands
\* before one with a greater key, and documents with equal keys come in any
\* order
SortOrders(found, key) ==
    {order \in [1..Cardinality(found) -> found] :
        /\ \A i, j \in 1..Cardinality(found) : order[i] = order[j] => i = j
        /\ \A i, j \in 1..Cardinality(found) : i < j => key[order[i]] >= key[order[j]]}

\* the filter of getFormSubmissions and getFormStatistics on the stored records
readFilter(collection, formId, userEmail) ==
    {i \in 1..Len(collection) :
        /\ Truthy(formId) => collection[i].formId = formId
        /\ Truthy(userEmail) => collection[i].userEmail = Str(userEmail)}

\* .limit(limit).skip(offset) on the sorted documents
page(sorted, limit, offset) ==
    SubSeq(sorted, offset + 1, IF offset + limit < Len(sorted) THEN offset + limit
                               ELSE Len(sorted))

\* getFormSubmissions, the sort having returned the positions in order
getFormSubmissions(collection, formId, userEmail, limit, offset, order, fail) ==
    IF fail \in {"find", "countDocuments"}
    THEN [thrown |-> ServiceError("Failed to fetch form submissions"),
          result |-> Undef, ops |-> <<"find", "countDocuments">>]
    ELSE [thrown |-> NoError,
          result |-> [submissions |->
                          page([i \in 1..Len(order) |-> collection[order[i]]], limit, offset),
                      total |-> Cardinality(readFilter(collection, formId, userEmail))],
          ops |-> <<"find", "countDocuments">>]

\* getFormSubmissionById; the id 0 stands for a string that is no ObjectId, on
\* which findById throws a CastError
getFormSubmissionById(collection, id, fail) ==
    LET hit == {i \in 1..Len(collection) : collection[i]._id = id} IN
    IF fail = "findById" \/ id = 0
    THEN [thrown |-> ServiceError("Failed to fetch form submission"),
          result |-> Undef, ops |-> <<"findById">>]
    ELSE [thrown |-> NoError,
          result |-> IF hit = {} THEN Null ELSE collection[CHOOSE i \in hit : TRUE],
          ops |-> <<"findById">>]

DayMs == 24 * 60 * 60 * 1000

\* $dateToString with format %Y-%m-%d, as the number of the day
dateOf(t) == t \div DayMs

RECURSIVE SumOver(_, _)
SumOver(S, f) ==
    IF S = {} THEN 0 ELSE LET x == CHOOSE x \in S : TRUE IN f[x] + SumOver(S \ {x}, f)

\* Math.round(avg * 100) / 100 of the average sum / count, in hundredths
roundedAverage(sum, count) ==
    IF count = 0 THEN 0 ELSE (200 * sum + count) \div (2 * count)

\* countDocuments(filter) of getFormStatistics
countSubmissions(collection, formId) ==
    Cardinality(readFilter(collection, formId, Undefined))

\* the first aggregation of getFormStatistics: the number of matching records
\* of each day
submissionsByDate(collection, formId) ==
    LET matched == readFilter(collection, formId, Undefined)
        dates == {dateOf(collection[i].submittedAt) : i \in matched}
    IN  [d \in dates |->
            Cardinality({i \in matched : dateOf(collection[i].submittedAt) = d})]

\* the second aggregation of getFormStatistics, rounded
averageQuestions(collection, formId) ==
    LET matched == readFilter(collection, formId, Undefined)
        questionCount == [i \in matched |-> Len(collection[i].questions)]
    IN  roundedAverage(SumOver(matched, questionCount), Cardinality(matched))

\* getFormStatistics: the count and the two aggregations
getFormStatistics(collection, formId, fail) ==
    IF fail \in {"countDocuments", "aggregate"}
        THEN [thrown |-> ServiceError("Failed to fetch form statistics"),
              result |-> Undef,
              ops |-> IF fail = "countDocuments" THEN <<"countDocuments">>
                      ELSE <<"countDocuments", "aggregate">>]
        ELSE [thrown |-> NoError,
              result |-> [totalSubmissions |-> countSubmissions(collection, formId),
                          submissionsByDate |-> submissionsByDate(collection, formId),
                          averageQuestionsPerSubmission |->
                              averageQuestions(collection, formId)],
              ops |-> <<"countDocuments", "aggregate", "aggregate">>]

(***************************************************************************)
(* FormsController                                                         *)
(***************************************************************************)
\* a JavaScript number: an integer, or NaN
Number(n) == [nan |-> FALSE, n |-> n]
NaN == [nan |-> TRUE, n |-> 0]

\* a < b on numbers: false as soon as one of them is NaN
Less(a, b) == ~a.nan /\ ~b.nan /\ a.n < b.n

DigitValue(c) ==
    CASE c = "0" -> 0 [] c = "1" -> 1 [] c = "2" -> 2 [] c = "3" -> 3 [] c = "4" -> 4
      [] c = "5" -> 5 [] c = "6" -> 6 [] c = "7" -> 7 [] c = "8" -> 8 [] c = "9" -> 9

IsDigit(c) == c \in {"0", "1", "2", "3", "4", "5", "6", "7", "8", "9"}

\* the value of the digits s starts with after position i, acc being the value
\* of those before, and whether there was a digit at all
RECURSIVE DigitsFrom(_, _, _, _)
DigitsFrom(s, i, acc, any) ==
    IF i <= Len(s) /\ IsDigit(s[i])
    THEN DigitsFrom(s, i + 1, 10 * acc + DigitValue(s[i]), TRUE)
    ELSE [any |-> any, n |-> acc]

\* parseInt(s, 10): leading whitespace, a sign, then the digits up to the first
\* character that is none; NaN when there is no digit
parseInt(s) ==
    LET t == TrimStart(s)
        signed == t # <<>> /\ t[1] \in {"-", "+"}
        digits == DigitsFrom(t, IF signed THEN 2 ELSE 1, 0, FALSE)
    IN  IF ~digits.any THEN NaN
        ELSE IF signed /\ t[1] = "-" THEN Number(0 - digits.n)
        ELSE Number(digits.n)

\* a query parameter is Undef when absent and a string otherwise; the empty
\* string is falsy
Given(param) == param.t = "string" /\ param.v # <<>>

\* an Error thrown with new Error(message)
PlainError(message) == [class |-> "Error", message |-> message]

\* FormsController.getFormSubmissions up to the call of the service: the error
\* thrown, or the limit and the offset the service is called with
paginate(limit, offset) ==
    LET limitNum == IF Given(limit) THEN parseInt(limit.v) ELSE Number(10)
        offsetNum == IF Given(offset) THEN parseInt(offset.v) ELSE Number(0)
        out(e, called) ==
            [thrown |-> e, called |-> called, limit |-> limitNum, offset |-> offsetNum]
    IN  IF Less(limitNum, Number(1)) \/ Less(Number(100), limitNum)
        THEN out(PlainError("Limit must be between 1 and 100"), FALSE)
        ELSE IF Less(offsetNum, Number(0))
        THEN out(PlainError("Offset must be non-negative"), FALSE)
        ELSE out(NoError, TRUE)

(***************************************************************************)
(* DraftsService                                                           *)
(***************************************************************************)
MIN_SESSION_ID_LENGTH == 10

SevenDays == 7 * 24 * 60 * 60 * 1000

\* sessionId.length of the session ids the model uses
sessionIdLength(sessionId) ==
    CASE sessionId = "" -> 0
      [] sessionId = "session-9" -> 9
      [] sessionId = "session-10" -> 10
      [] sessionId = "session-011" -> 11

\* mutant: a sessionId of length 10 is turned away as well
invalidSessionId_TenTooShort(sessionId) ==
    ~Truthy(sessionId) \/ sessionIdLength(sessionId) <= MIN_SESSION_ID_LENGTH

\* !sessionId || sessionId.length < 10
invalidSessionId(sessionId) ==
    ~Truthy(sessionId) \/ sessionIdLength(sessionId) < MIN_SESSION_ID_LENGTH

\* getLastAnsweredQuestion
getLastAnsweredQuestion(answers) ==
    LET answeredQuestions ==
            SelectSeq(answers, LAMBDA e : ~(e.v.t \in {"undefined", "null"} \/ e.v = Str(<<>>)))
    IN  IF Len(answeredQuestions) > 0
        THEN Str(answeredQuestions[Len(answeredQuestions)].k)
        ELSE Null

\* the update document of saveDraft
draftUpdate(saveDraftDto, metadata, t) ==
    [sessionId |-> saveDraftDto.sessionId,
     formId |-> saveDraftDto.formId,
     answers |-> saveDraftDto.answers,
     currentStep |-> saveDraftDto.currentStep,
     lastModified |-> t,
     expiresAt |-> t + SevenDays,
     userAgent |-> metadata.userAgent,
     ipAddress |-> metadata.ipAddress,
     metadata |-> [answerCount |-> Len(saveDraftDto.answers),
                   lastQuestionAnswered |-> getLastAnsweredQuestion(saveDraftDto.answers)]]

\* mutant: the upsert inserts whether or not the session has a draft
upsertDraft_AlwaysInserts(collection, update) == Append(collection, update)

\* findOneAndUpdate({ sessionId }, update, { upsert: true, new: true }); the
\* _id of a draft is left out of the model
upsertDraft(collection, update) ==
    LET hit == {i \in 1..Len(collection) : collection[i].sessionId = update.sessionId}
        at == CHOOSE i \in hit : \A j \in hit : i <= j
    IN  IF hit = {} THEN Append(collection, update)
        ELSE [collection EXCEPT ![at] = update]

\* saveDraft as a whole
saveDraft(saveDraftDto, metadata, t, fail) ==
    LET saved == upsertDraft(drafts, draftUpdate(saveDraftDto, metadata, t))
        out(e, ok, m, d, ops) ==
            [response |-> Response(e, ok, m, "", 0),
             drafts |-> d, ops |-> ops]
    IN  IF invalidSessionId(saveDraftDto.sessionId)
        THEN out(BadRequestException("Invalid session ID format"), FALSE, "", drafts, <<>>)
        ELSE IF fail = "findOneAndUpdate" \/ saveDraftDto.currentStep < 0
        THEN out(NoError, FALSE, "Failed to save draft", drafts, <<"findOneAndUpdate">>)
        ELSE out(NoError, TRUE, "Draft saved successfully", saved, <<"findOneAndUpdate">>)

\* mutant: deleting a draft that is not there is reported as a success
deleteDraft_MissingIsSuccess(sessionId, fail) ==
    LET out(e, ok, m, d, ops) ==
            [response |-> Response(e, ok, m, "", 0),
             drafts |-> d, ops |-> ops]
    IN  IF invalidSessionId(sessionId)
        THEN out(BadRequestException("Invalid session ID format"), FALSE, "", drafts, <<>>)
        ELSE IF fail = "deleteOne"
        THEN out(NoError, FALSE, "Failed to delete draft", drafts, <<"deleteOne">>)
        ELSE out(NoError, TRUE, "Draft deleted successfully",
                 deleteOneDraft(drafts, sessionId), <<"deleteOne">>)

\* deleteDraft as a whole
deleteDraft(sessionId, fail) ==
    LET deletedCount ==
            IF \E i \in 1..Len(drafts) : drafts[i].sessionId = sessionId THEN 1 ELSE 0
        out(e, ok, m, d, ops) ==
            [response |-> Response(e, ok, m, "", 0),
             drafts |-> d, ops |-> ops]
    IN  IF invalidSessionId(sessionId)
        THEN out(BadRequestException("Invalid session ID format"), FALSE, "", drafts, <<>>)
        ELSE IF fail = "deleteOne"
        THEN out(NoError, FALSE, "Failed to delete draft", drafts, <<"deleteOne">>)
        ELSE IF deletedCount = 0
        THEN out(NotFoundException("Draft not found"), FALSE, "", drafts, <<"deleteOne">>)
        ELSE out(NoError, TRUE, "Draft deleted successfully",
                 deleteOneDraft(drafts, sessionId), <<"deleteOne">>)

\* mutant: a failing read is answered like a missing draft, with null
getDraft_NullOnFailure(collection, sessionId, t, fail) ==
    LET hit == {i \in 1..Len(collection) :
                   collection[i].sessionId = sessionId /\ collection[i].expiresAt > t}
        draft == collection[CHOOSE i \in hit : \A j \in hit : i <= j]
    IN  IF invalidSessionId(sessionId)
        THEN [thrown |-> BadRequestException("Invalid session ID format"),
              result |-> Undef, ops |-> <<>>]
        ELSE IF fail = "findOne" \/ hit = {}
        THEN [thrown |-> NoError, result |-> Null, ops |-> <<"findOne">>]
        ELSE [thrown |-> NoError,
              result |-> [sessionId |-> draft.sessionId, formId |-> draft.formId,
                          answers |-> draft.answers, currentStep |-> draft.currentStep,
                          lastModified |-> draft.lastModified,
                          expiresAt |-> draft.expiresAt],
              ops |-> <<"findOne">>]

\* mutant: a draft is still returned at the instant it expires
getDraft_VisibleAtExpiry(collection, sessionId, t, fail) ==
    LET hit == {i \in 1..Len(collection) :
                   collection[i].sessionId = sessionId /\ collection[i].expiresAt >= t}
        draft == collection[CHOOSE i \in hit : \A j \in hit : i <= j]
    IN  IF invalidSessionId(sessionId)
        THEN [thrown |-> BadRequestException("Invalid session ID format"),
              result |-> Undef, ops |-> <<>>]
        ELSE IF fail = "findOne"
        THEN [thrown |-> NotFoundException("Draft not found"),
              result |-> Undef, ops |-> <<"findOne">>]
        ELSE IF hit = {}
        THEN [thrown |-> NoError, result |-> Null, ops |-> <<"findOne">>]
        ELSE [thrown |-> NoError,
              result |-> [sessionId |-> draft.sessionId, formId |-> draft.formId,
                          answers |-> draft.answers, currentStep |-> draft.currentStep,
                          lastModified |-> draft.lastModified,
                          expiresAt |-> draft.expiresAt],
              ops |-> <<"findOne">>]

\* getDraft: the draft of the session that has not expired, or null
getDraft(collection, sessionId, t, fail) ==
    LET hit == {i \in 1..Len(collection) :
                   collection[i].sessionId = sessionId /\ collection[i].expiresAt > t}
        draft == collection[CHOOSE i \in hit : \A j \in hit : i <= j]
    IN  IF invalidSessionId(sessionId)
        THEN [thrown |-> BadRequestException("Invalid session ID format"),
              result |-> Undef, ops |-> <<>>]
        ELSE IF fail = "findOne"
        THEN [thrown |-> NotFoundException("Draft not found"),
              result |-> Undef, ops |-> <<"findOne">>]
        ELSE IF hit = {}
        THEN [thrown |-> NoError, result |-> Null, ops |-> <<"findOne">>]
        ELSE [thrown |-> NoError,
              result |-> [sessionId |-> draft.sessionId, formId |-> draft.formId,
                          answers |-> draft.answers, currentStep |-> draft.currentStep,
                          lastModified |-> draft.lastModified,
                          expiresAt |-> draft.expiresAt],
              ops |-> <<"findOne">>]

\* mutant: the cleanup deletes the drafts that have not expired as well
cleanupExpiredDrafts_DeletesAll(collection, t, fail) ==
    IF fail = "deleteMany"
    THEN [thrown |-> NoError,
          result |-> [deletedCount |-> 0, message |-> "Failed to cleanup expired drafts"],
          drafts |-> collection, ops |-> <<"deleteMany">>]
    ELSE [thrown |-> NoError,
          result |-> [deletedCount |-> Len(collection),
                      message |-> "Successfully cleaned up expired drafts"],
          drafts |-> <<>>, ops |-> <<"deleteMany">>]

\* cleanupExpiredDrafts: deleteMany({ expiresAt: { $lt: now } })
cleanupExpiredDrafts(collection, t, fail) ==
    LET expired == {i \in 1..Len(collection) : collection[i].expiresAt < t} IN
    IF fail = "deleteMany"
    THEN [thrown |-> NoError,
          result |-> [deletedCount |-> 0, message |-> "Failed to cleanup expired drafts"],
          drafts |-> collection, ops |-> <<"deleteMany">>]
    ELSE [thrown |-> NoError,
          result |-> [deletedCount |-> Cardinality(expired),
                      message |-> "Successfully cleaned up expired drafts"],
          drafts |-> SelectSeq(collection, LAMBDA d : ~(d.expiresAt < t)),
          ops |-> <<"deleteMany">>]

\* getDraftStatistics: the aggregation over the drafts that have not expired;
\* an average is kept as the sum and the count it divides
getDraftStatistics(collection, formId, t, fail) ==
    LET matched == {i \in 1..Len(collection) :
                       /\ collection[i].expiresAt > t
                       /\ Truthy(formId) => collection[i].formId = formId}
        step == [i \in matched |-> collection[i].currentStep]
        answerCount == [i \in matched |-> Len(collection[i].answers)]
        modified == {collection[i].lastModified : i \in matched}
    IN  IF fail = "aggregate"
        THEN [thrown |-> StoreError, result |-> Undef, ops |-> <<"aggregate">>]
        ELSE IF matched = {}
        THEN [thrown |-> NoError,
              result |-> [totalDrafts |-> 0, averageStep |-> [sum |-> 0, count |-> 1],
                          averageAnswers |-> [sum |-> 0, count |-> 1],
                          oldestDraft |-> Null, newestDraft |-> Null],
              ops |-> <<"aggregate">>]
        ELSE [thrown |-> NoError,
              result |-> [totalDrafts |-> Cardinality(matched),
                          averageStep |-> [sum |-> SumOver(matched, step),
                                           count |-> Cardinality(matched)],
                          averageAnswers |-> [sum |-> SumOver(matched, answerCount),
                                              count |-> Cardinality(matched)],
                          oldestDraft |-> CHOOSE m \in modified : \A n \in modified : m <= n,
                          newestDraft |-> CHOOSE m \in modified : \A n \in modified : m >= n],
              ops |-> <<"aggregate">>]

(***************************************************************************)
(* The state machine                                                       *)
(***************************************************************************)
Pending == [kind |-> "pending", ref |-> <<>>]

NoCall ==
    [op |-> "none", sessionId |-> Undefined, ipAddress |-> Undefined,
     convertFromDraft |-> FALSE, validation |-> Ok,
     response |-> Response(NoError, FALSE, "", "", 0),
     ops |-> <<>>, at |-> 0,
     submissions |-> <<>>, drafts |-> <<>>]

InitStore ==
    /\ strictQuery \in BOOLEAN
    /\ now = 0
    /\ submissions = <<>>
    /\ drafts = <<>>
    /\ nextId = 1
    /\ accepted = <<>>
    /\ last = NoCall

Init ==
    /\ InitStore
    /\ arg = <<>>
    /\ ret = Pending

\* time passes
Advance(ms) ==
    /\ now' = now + ms
    /\ UNCHANGED <<strictQuery, submissions, drafts, nextId, accepted, last, arg, ret>>

\* a call of submitForm and what it leaves in the store
SubmitFormCall(submissionData, metadata, fail) ==
    \E first \in (IF protectionApplies(submissionData)
                  THEN recentFirst(submissions, submissionData.sessionId, now)
                  ELSE {0}) :
        \E out \in {submitForm(submissionData, metadata, now, nextId, first, fail)} :
        /\ submissions' = out.submissions
        /\ drafts' = out.drafts
        /\ nextId' = IF out.response.success THEN nextId + 1 ELSE nextId
        /\ accepted' =
               IF out.response.success
               THEN Append(accepted, [submissionId |-> out.response.submissionId,
                                      sessionId |-> submissionData.sessionId,
                                      ipAddress |-> ipAddressOf(metadata),
                                      at |-> now])
               ELSE accepted
        /\ last' = [op |-> "submitForm",
                    sessionId |-> submissionData.sessionId,
                    ipAddress |-> ipAddressOf(metadata),
                    convertFromDraft |-> submissionData.convertFromDraft,
                    validation |-> validateFormSubmission(submissionData),
                    response |-> out.response,
                    ops |-> out.ops, at |-> now,
                    submissions |-> submissions, drafts |-> drafts]
        /\ UNCHANGED <<strictQuery, now>>

\* POST forms/submit
SubmitForm(submissionData, metadata, fail) ==
    /\ SubmitFormCall(submissionData, metadata, fail)
    /\ UNCHANGED <<arg, ret>>

\* a call of saveDraft and what it leaves in the store
SaveDraftCall(saveDraftDto, metadata, fail) ==
    \E out \in {saveDraft(saveDraftDto, metadata, now, fail)} :
    /\ drafts' = out.drafts
    /\ last' = [op |-> "saveDraft",
                sessionId |-> saveDraftDto.sessionId,
                ipAddress |-> metadata.ipAddress,
                convertFromDraft |-> FALSE,
                validation |-> Ok,
                response |-> out.response,
                ops |-> out.ops, at |-> now,
                submissions |-> submissions, drafts |-> drafts]
    /\ UNCHANGED <<strictQuery, now, submissions, nextId, accepted>>

\* POST forms/draft/save
SaveDraft(saveDraftDto, metadata, fail) ==
    /\ SaveDraftCall(saveDraftDto, metadata, fail)
    /\ UNCHANGED <<arg, ret>>

\* DELETE forms/draft/:sessionId
DeleteDraft(sessionId, fail) ==
    \E out \in {deleteDraft(sessionId, fail)} :
    /\ drafts' = out.drafts
    /\ last' = [op |-> "deleteDraft",
                sessionId |-> sessionId,
                ipAddress |-> Undefined,
                convertFromDraft |-> FALSE,
                validation |-> Ok,
                response |-> out.response,
                ops |-> out.ops, at |-> now,
                submissions |-> submissions, drafts |-> drafts]
    /\ UNCHANGED <<strictQuery, now, submissions, nextId, accepted, arg, ret>>

\* what last keeps of an operation that answers with a value and no envelope:
\* the error it threw, if any; the value it returned goes to ret
ReadCall(op, sessionId, out) ==
    [op |-> op, sessionId |-> sessionId, ipAddress |-> Undefined,
     convertFromDraft |-> FALSE, validation |-> Ok,
     response |-> Response(out.thrown, FALSE, "", "", 0),
     ops |-> out.ops, at |-> now,
     submissions |-> submissions, drafts |-> drafts]

\* the service call behind GET forms/submissions
GetFormSubmissions(formId, userEmail, limit, offset, fail) ==
    \E order \in SortOrders(readFilter(submissions, formId, userEmail),
                            [i \in 1..Len(submissions) |-> submissions[i].submittedAt]) :
    \E out \in {getFormSubmissions(submissions, formId, userEmail, limit, offset,
                                    order, fail)} :
        /\ ret' = out.result
        /\ last' = ReadCall("getFormSubmissions", Undefined, out)
        /\ UNCHANGED <<strictQuery, now, submissions, drafts, nextId, accepted, arg>>

\* GET forms/submissions: the controller, then the service with the numbers the
\* controller made of the query; arg keeps the call the service received.  What
\* the store makes of a limit or a skip that is NaN is not the service's to
\* say: the query fails, or it runs without that limit or skip
ListSubmissions(limit, offset, fail) ==
    \E call \in {paginate(limit, offset)} :
    \E order \in SortOrders(readFilter(submissions, Undefined, Undefined),
                            [i \in 1..Len(submissions) |-> submissions[i].submittedAt]) :
    \E nanFails \in BOOLEAN :
    \E out \in {IF ~call.called
                THEN [thrown |-> call.thrown, result |-> Undef, ops |-> <<>>]
                ELSE getFormSubmissions(
                         submissions, Undefined, Undefined,
                         IF call.limit.nan THEN Len(submissions) ELSE call.limit.n,
                         IF call.offset.nan THEN 0 ELSE call.offset.n,
                         order,
                         IF (call.limit.nan \/ call.offset.nan) /\ nanFails
                         THEN "find" ELSE fail)} :
        /\ arg' = [query |-> [limit |-> limit, offset |-> offset],
                   called |-> call.called, limit |-> call.limit, offset |-> call.offset]
        /\ ret' = out.result
        /\ last' = ReadCall("listSubmissions", Undefined, out)
        /\ UNCHANGED <<strictQuery, now, submissions, drafts, nextId, accepted>>

\* GET forms/submissions/:id
GetFormSubmissionById(id, fail) ==
    \E out \in {getFormSubmissionById(submissions, id, fail)} :
        /\ ret' = out.result
        /\ last' = ReadCall("getFormSubmissionById", Undefined, out)
        /\ UNCHANGED <<strictQuery, now, submissions, drafts, nextId, accepted, arg>>

\* GET forms/statistics
GetFormStatistics(formId, fail) ==
    \E out \in {getFormStatistics(submissions, formId, fail)} :
        /\ ret' = out.result
        /\ last' = ReadCall("getFormStatistics", Undefined, out)
        /\ UNCHANGED <<strictQuery, now, submissions, drafts, nextId, accepted, arg>>

\* GET forms/draft/:sessionId
GetDraft(sessionId, fail) ==
    \E out \in {getDraft(drafts, sessionId, now, fail)} :
        /\ ret' = out.result
        /\ last' = ReadCall("getDraft", sessionId, out)
        /\ UNCHANGED <<strictQuery, now, submissions, drafts, nextId, accepted, arg>>

\* the cleanup of the expired drafts
CleanupExpiredDrafts(fail) ==
    \E out \in {cleanupExpiredDrafts(drafts, now, fail)} :
        /\ drafts' = out.drafts
        /\ ret' = out.result
        /\ last' = ReadCall("cleanupExpiredDrafts", Undefined, out)
        /\ UNCHANGED <<strictQuery, now, submissions, nextId, accepted, arg>>

\* the statistics of the drafts
GetDraftStatistics(formId, fail) ==
    \E out \in {getDraftStatistics(drafts, formId, now, fail)} :
        /\ ret' = out.result
        /\ last' = ReadCall("getDraftStatistics", Undefined, out)
        /\ UNCHANGED <<strictQuery, now, submissions, drafts, nextId, accepted, arg>>

\* the TTL index on expiresAt (expireAfterSeconds: 0): the store removes, at a
\* time of its own choosing, a draft whose expiresAt is reached
TtlSweep ==
    \E i \in 1..Len(drafts) :
        /\ drafts[i].expiresAt <= now
        /\ drafts' = SubSeq(drafts, 1, i - 1) \o SubSeq(drafts, i + 1, Len(drafts))
        /\ last' = [NoCall EXCEPT !.op = "ttlSweep", !.at = now,
                                  !.submissions = submissions, !.drafts = drafts]
        /\ UNCHANGED <<strictQuery, now, submissions, nextId, accepted, arg, ret>>

(***************************************************************************)
(* Spec: the services under a small set of requests                        *)
(***************************************************************************)
Question(id, type, required) ==
    [id |-> id, type |-> type, title |-> <<"T">>, required |-> required, options |-> <<>>]

Dto(questions, answers, sessionId, convertFromDraft) ==
    [formId |-> Undefined, questions |-> questions, answers |-> answers,
     userEmail |-> Undef, sessionId |-> sessionId, convertFromDraft |-> convertFromDraft]

NameQuestion == <<Question(<<"a">>, "text", TRUE)>>

\* the requests of Spec: an answered and an unanswered required question
SpecPayloads ==
    {[questions |-> NameQuestion, answers |-> <<[k |-> <<"a">>, v |-> Str(<<"a">>)]>>],
     [questions |-> NameQuestion, answers |-> <<>>]}

SpecSessionIds == {Undefined, "session-10"}
SpecIpAddresses == {"10.0.0.1"}
SpecMetadata == {[ipAddress |-> ip] : ip \in SpecIpAddresses}
SubmitFailures == {"none", "find", "countDocuments", "save", "deleteOne"}

Tick ==
    /\ now < MaxTicks * TickMs
    /\ Advance(TickMs)

Submit ==
    \E p \in SpecPayloads, sessionId \in SpecSessionIds, convert \in BOOLEAN,
       metadata \in SpecMetadata, fail \in SubmitFailures :
        /\ SubmitForm(Dto(p.questions, p.answers, sessionId, convert), metadata, fail)
        /\ Len(submissions') <= MaxStored

Save ==
    \E sessionId \in {"session-9", "session-10"}, fail \in {"none", "findOneAndUpdate"} :
        SaveDraft([sessionId |-> sessionId, formId |-> Undefined,
                   answers |-> <<[k |-> <<"a">>, v |-> Str(<<"a">>)]>>, currentStep |-> 1],
                  [userAgent |-> Undefined, ipAddress |-> Undefined], fail)

Delete ==
    \E sessionId \in {"session-9", "session-10"}, fail \in {"none", "deleteOne"} :
        DeleteDraft(sessionId, fail)

Next == Tick \/ Submit \/ Save \/ Delete

Spec == Init /\ [][Next]_vars


(***************************************************************************)
(* SpecGuard: one session submitting again and again, 31 seconds a tick    *)
(***************************************************************************)
MaxGuardStored == 4
MaxGuardTicks == 4

GuardTickMs == 31 * 1000

AnsweredName == <<[k |-> <<"a">>, v |-> Str(<<"a">>)]>>

GuardTick ==
    /\ now < MaxGuardTicks * GuardTickMs
    /\ Advance(GuardTickMs)

GuardSubmit ==
    \E fail \in {"none", "updateOne"} :
        /\ SubmitForm(Dto(NameQuestion, AnsweredName, "session-10", FALSE),
                      [ipAddress |-> "10.0.0.1"], fail)
        /\ Len(submissions') <= MaxGuardStored

NextGuard == GuardTick \/ GuardSubmit

SpecGuard == Init /\ [][NextGuard]_vars

(***************************************************************************)
(* SpecIp: one address submitting without a session, and a session seen    *)
(* for the first time submitting from that address                         *)
(***************************************************************************)
MaxIpTicks == 1

MaxIpStored == MAX_RECENT_IP_SUBMISSIONS + 1

IpTick ==
    /\ now < MaxIpTicks * TickMs
    /\ Advance(TickMs)

IpSubmitWithoutSession ==
    /\ SubmitForm(Dto(NameQuestion, AnsweredName, Undefined, FALSE),
                  [ipAddress |-> "10.0.0.1"], "none")
    /\ Len(submissions') <= MaxIpStored

IpSubmitNewSession ==
    /\ \A i \in 1..Len(accepted) : accepted[i].sessionId # "session-011"
    /\ SubmitForm(Dto(NameQuestion, AnsweredName, "session-011", FALSE),
                  [ipAddress |-> "10.0.0.1"], "none")
    /\ Len(submissions') <= MaxIpStored

NextIp == IpTick \/ IpSubmitWithoutSession \/ IpSubmitNewSession

SpecIp == Init /\ [][NextIp]_vars

(***************************************************************************)
(* SpecPayload: submissions without a session over a range of payloads     *)
(***************************************************************************)
MaxPayloadStored == 1

PayloadIds == {<<"a">>, <<"a", "<">>}
PayloadValues == {Str(<<"a">>), Str(<<" ">>), Null}

PayloadQuestions ==
    {Question(id, "text", required) : id \in PayloadIds, required \in BOOLEAN}

PayloadQuestionnaires ==
    UNION {[1..n -> PayloadQuestions] : n \in 1..MaxQuestions}

PayloadEntries == {[k |-> id, v |-> value] : id \in PayloadIds, value \in PayloadValues}

PayloadAnswers ==
    {answers \in UNION {[1..n -> PayloadEntries] : n \in 0..MaxQuestions} :
        \A i, j \in 1..Len(answers) : answers[i].k = answers[j].k => i = j}

PayloadSubmit ==
    \E questions \in PayloadQuestionnaires, answers \in PayloadAnswers :
        /\ SubmitForm(Dto(questions, answers, Undefined, FALSE),
                      [ipAddress |-> "10.0.0.1"], "none")
        /\ Len(submissions') <= MaxPayloadStored

NextPayload == PayloadSubmit

SpecPayload == Init /\ [][NextPayload]_vars

(***************************************************************************)
(* SpecValidate: validateQuestions on a range of question lists            *)
(***************************************************************************)
MaxListLen == 3

ValidateIds == {<<>>, <<"a">>, <<"b">>}

ValidateQuestions ==
    {[id |-> id, type |-> type, title |-> title, required |-> FALSE, options |-> <<>>] :
        id \in ValidateIds, type \in {"text", "number"}, title \in {<<>>, <<"T">>}}
    \cup
    {[id |-> id, type |-> "multiple-choice", title |-> <<"T">>, required |-> FALSE,
      options |-> options] :
        id \in ValidateIds, options \in {<<>>, << <<"a">> >>}}

\* one question more than the service allows, all the same
LongQuestionnaire ==
    [i \in 1..(MAX_QUESTIONNAIRE_LENGTH + 1) |-> Question(<<"a">>, "text", FALSE)]

ValidateArgs ==
    UNION {[1..n -> ValidateQuestions] : n \in 0..MaxListLen} \cup {LongQuestionnaire}

InitValidate ==
    /\ InitStore
    /\ arg \in ValidateArgs
    /\ ret = Pending

Validate ==
    /\ ret = Pending
    /\ ret' = validateQuestions(arg)
    /\ UNCHANGED <<strictQuery, now, submissions, drafts, nextId, accepted, last, arg>>

NextValidate == Validate

SpecValidate == InitValidate /\ [][NextValidate]_vars

(***************************************************************************)
(* SpecAnswers: validateFormSubmission on valid question lists and a range *)
(* of answer objects                                                       *)
(***************************************************************************)
MaxAnswerEntries == 2

AnswerQuestionIds == {<<"a">>, <<"c", "o", "n", "s", "t", "r", "u", "c", "t", "o", "r">>}
AnswerKeys == AnswerQuestionIds \cup {<<"b">>}

Repeat(c, n) == [i \in 1..n |-> c]

AnswerValues ==
    {Str(<<>>), Null, Str(<<"a">>), Str(<<"a", "@", "b", ".", "c">>),
     Str(Repeat("a", MAX_ANSWER_LENGTH)), Str(Repeat("a", MAX_ANSWER_LENGTH + 1))}

\* a question whose title tells its id
AnswerQuestion(id, type, required) ==
    [id |-> id, type |-> type, title |-> <<"T">> \o id, required |-> required,
     options |-> IF type = "multiple-choice" THEN << <<"a">> >> ELSE <<>>]

AnswerQuestions ==
    {AnswerQuestion(id, type, required) :
        id \in AnswerQuestionIds, type \in QuestionType, required \in BOOLEAN}

\* the question lists whose ids are distinct
AnswerQuestionnaires ==
    {questions \in UNION {[1..n -> AnswerQuestions] : n \in 1..Cardinality(AnswerQuestionIds)} :
        \A i, j \in 1..Len(questions) : questions[i].id = questions[j].id => i = j}

AnswerEntries == {[k |-> key, v |-> value] : key \in AnswerKeys, value \in AnswerValues}

AnswerObjects ==
    {answers \in UNION {[1..n -> AnswerEntries] : n \in 0..MaxAnswerEntries} :
        \A i, j \in 1..Len(answers) : answers[i].k = answers[j].k => i = j}

InitAnswers ==
    /\ InitStore
    /\ arg \in {[questions |-> questions, answers |-> answers, userEmail |-> Undef] :
                   questions \in AnswerQuestionnaires, answers \in AnswerObjects}
    /\ ret = Pending

ValidateSubmission ==
    /\ ret = Pending
    /\ ret' = validateFormSubmission(arg)
    /\ UNCHANGED <<strictQuery, now, submissions, drafts, nextId, accepted, last, arg>>

NextAnswers == ValidateSubmission

SpecAnswers == InitAnswers /\ [][NextAnswers]_vars

(***************************************************************************)
(* SpecSanitize: sanitizeInput on a range of values, and on its own result *)
(***************************************************************************)
MaxSanitizeLen == 3

SanitizeChars == {"a", "<", ">", " "}

SanitizeStrings == UNION {[1..n -> SanitizeChars] : n \in 0..MaxSanitizeLen}

\* the strings that go into objects and arrays
NestedStrings == {<<>>, <<"a">>, <<" ", "a">>, <<"<", "a">>, <<"<", " ", "a", ">">>}

FlatObjects ==
    {Obj(<<>>)}
    \cup {Obj(<<[k |-> <<"k", "<">>, v |-> v]>>) : v \in {Str(s) : s \in NestedStrings}}
    \cup {Obj(<<[k |-> <<"k">>, v |-> Str(s)], [k |-> <<" ", "n">>, v |-> v]>>) :
              s \in NestedStrings, v \in {Null, Undef, Num, Bool}}

SanitizeValues ==
    {Str(s) : s \in SanitizeStrings}
    \cup {Null, Undef, Num, Bool}
    \cup FlatObjects
    \cup {Obj(<<[k |-> <<"o">>, v |-> o], [k |-> <<"s">>, v |-> Str(s)]>>) :
              o \in FlatObjects, s \in NestedStrings}
    \cup {Arr(<<Str(s), Str(u)>>) : s, u \in NestedStrings}

InitSanitize ==
    /\ InitStore
    /\ arg \in SanitizeValues
    /\ ret = Pending

\* sanitizeInput(arg)
Sanitize ==
    /\ ret = Pending
    /\ ret' = [first |-> sanitizeInput(arg), second |-> Pending]
    /\ UNCHANGED <<strictQuery, now, submissions, drafts, nextId, accepted, last, arg>>

\* sanitizeInput(sanitizeInput(arg))
SanitizeAgain ==
    /\ ret # Pending
    /\ ret.second = Pending
    /\ ret' = [ret EXCEPT !.second = sanitizeInput(ret.first)]
    /\ UNCHANGED <<strictQuery, now, submissions, drafts, nextId, accepted, last, arg>>

NextSanitize == Sanitize \/ SanitizeAgain

SpecSanitize == InitSanitize /\ [][NextSanitize]_vars

(***************************************************************************)
(* SpecStore: one submitForm on an empty store, over a range of answers    *)
(* and of caller metadata, with or without a store call that fails; arg    *)
(* keeps what was submitted and which call was made to fail                *)
(***************************************************************************)
StoreStrings ==
    {<<"A", "n", "n">>, <<"a", "<">>, <<"<", ">">>, <<" ", "a">>, <<"<", " ", "a">>}

StoreQuestions == <<Question(<<"a">>, "text", TRUE), Question(<<"b">>, "text", FALSE)>>

StoreAnswers ==
    {<<[k |-> <<"a">>, v |-> Str(s)]>> : s \in StoreStrings}
    \cup {<<[k |-> <<"a">>, v |-> Str(s)], [k |-> <<"b">>, v |-> v]>> :
              s \in StoreStrings, v \in {Null, Str(<<">", "b">>)}}
    \cup {<<>>, <<[k |-> <<"a">>, v |-> Num]>>}

\* what a caller may put into the metadata beside the address
CallerMetadata ==
    [version |-> "9.9.9", source |-> "caller", convertedFromDraft |-> TRUE,
     userAgent |-> "agent", ipAddress |-> "10.0.0.1"]

StoreMetadata ==
    {[k \in keys |-> CallerMetadata[k]] : keys \in SUBSET DOMAIN CallerMetadata}

StoreSubmit ==
    \E answers \in StoreAnswers, metadata \in StoreMetadata,
       sessionId \in {Undefined, "session-10"}, convertFromDraft \in BOOLEAN,
       fail \in SubmitFailures :
        /\ arg = <<>>
        /\ SubmitFormCall(Dto(StoreQuestions, answers, sessionId, convertFromDraft),
                          metadata, fail)
        /\ arg' = [answers |-> answers, metadata |-> metadata, fail |-> fail]
        /\ UNCHANGED ret

NextStore == StoreSubmit

SpecStore == Init /\ [][NextStore]_vars

(***************************************************************************)
(* SpecErrors: every operation of the two services, each with and without  *)
(* a failing store call, a week passing at a time                          *)
(***************************************************************************)
MaxErrorStored == 2
MaxErrorTicks == 2

ErrorTick ==
    /\ now < MaxErrorTicks * SevenDays
    /\ Advance(SevenDays)

ErrorSubmit ==
    \E fail \in {"none", "save"} :
        /\ SubmitForm(Dto(NameQuestion, AnsweredName, Undefined, FALSE),
                      [ipAddress |-> "10.0.0.1"], fail)
        /\ Len(submissions') <= MaxErrorStored

ErrorSave ==
    \E fail \in {"none", "findOneAndUpdate"} :
        SaveDraft([sessionId |-> "session-10", formId |-> Undefined,
                   answers |-> AnsweredName, currentStep |-> 1],
                  [userAgent |-> Undefined, ipAddress |-> Undefined], fail)

ErrorDelete == \E fail \in {"none", "deleteOne"} : DeleteDraft("session-10", fail)

ErrorGetDraft ==
    \E sessionId \in {"session-9", "session-10"}, fail \in {"none", "findOne"} :
        GetDraft(sessionId, fail)

ErrorCleanup == \E fail \in {"none", "deleteMany"} : CleanupExpiredDrafts(fail)

ErrorDraftStatistics == \E fail \in {"none", "aggregate"} : GetDraftStatistics(Undefined, fail)

ErrorList ==
    \E limit \in {1, 10}, offset \in {0, 1}, fail \in {"none", "find", "countDocuments"} :
        GetFormSubmissions(Undefined, Undefined, limit, offset, fail)

ErrorById == \E id \in 0..MaxErrorStored, fail \in {"none", "findById"} :
    GetFormSubmissionById(id, fail)

ErrorStatistics ==
    \E fail \in {"none", "countDocuments", "aggregate"} : GetFormStatistics(Undefined, fail)

NextErrors ==
    \/ ErrorTick
    \/ ErrorSubmit
    \/ ErrorSave
    \/ ErrorDelete
    \/ ErrorGetDraft
    \/ ErrorCleanup
    \/ ErrorDraftStatistics
    \/ ErrorList
    \/ ErrorById
    \/ ErrorStatistics

SpecErrors == Init /\ [][NextErrors]_vars

(***************************************************************************)
(* SpecDrafts: saveDraft, getDraft and deleteDraft under session ids of    *)
(* length 0, 9, 10 and 11 and under none, a week passing at a time         *)
(***************************************************************************)
MaxDraftTicks == 1

DraftSessionIds == {Undefined, "", "session-9", "session-10", "session-011"}

DraftsTick ==
    /\ now < MaxDraftTicks * SevenDays
    /\ Advance(SevenDays)

DraftsSave ==
    \E sessionId \in DraftSessionIds, currentStep \in {-1, 0, 1},
       fail \in {"none", "findOneAndUpdate"} :
        SaveDraft([sessionId |-> sessionId, formId |-> Undefined,
                   answers |-> AnsweredName, currentStep |-> currentStep],
                  [userAgent |-> Undefined, ipAddress |-> Undefined], fail)

DraftsGet ==
    \E sessionId \in DraftSessionIds, fail \in {"none", "findOne"} :
        GetDraft(sessionId, fail)

DraftsDelete ==
    \E sessionId \in DraftSessionIds, fail \in {"none", "deleteOne"} :
        DeleteDraft(sessionId, fail)

NextDrafts == DraftsTick \/ DraftsSave \/ DraftsGet \/ DraftsDelete

SpecDrafts == Init /\ [][NextDrafts]_vars

(***************************************************************************)
(* SpecLife: the drafts of two sessions as time passes, half a week at a   *)
(* time: saved, read, counted, swept by the cleanup and by the TTL index;  *)
(* arg keeps the latest successful save of each session                    *)
(***************************************************************************)
MaxLifeTicks == 3

LifeTickMs == SevenDays \div 2

LifeSessionIds == {"session-10", "session-011"}

LifeFormId(sessionId) == IF sessionId = "session-10" THEN "form-1" ELSE Undefined

\* earlier is the currentStep of the successful save before the latest one
NeverSaved == [saved |-> FALSE, answers |-> <<>>, currentStep |-> 0, at |-> 0, earlier |-> -1]

InitLife ==
    /\ InitStore
    /\ arg = [s \in LifeSessionIds |-> NeverSaved]
    /\ ret = Pending

\* a saveDraft of one of the sessions, arg keeping it when it succeeds
SaveKept(sessionId, answers, currentStep, fail) ==
    /\ SaveDraftCall([sessionId |-> sessionId, formId |-> LifeFormId(sessionId),
                      answers |-> answers, currentStep |-> currentStep],
                     [userAgent |-> Undefined, ipAddress |-> Undefined], fail)
    /\ arg' = IF last'.response.success
              THEN [arg EXCEPT ![sessionId] =
                       [saved |-> TRUE, answers |-> answers,
                        currentStep |-> currentStep, at |-> now,
                        earlier |-> IF arg[sessionId].saved
                                    THEN arg[sessionId].currentStep ELSE -1]]
              ELSE arg
    /\ UNCHANGED ret

LifeTick ==
    /\ now < MaxLifeTicks * LifeTickMs
    /\ Advance(LifeTickMs)

LifeSave ==
    \E sessionId \in LifeSessionIds, fail \in {"none", "findOneAndUpdate"} :
        SaveKept(sessionId, AnsweredName, 1, fail)

LifeGet ==
    \E sessionId \in LifeSessionIds, fail \in {"none", "findOne"} : GetDraft(sessionId, fail)

LifeCleanup == \E fail \in {"none", "deleteMany"} : CleanupExpiredDrafts(fail)

LifeStatistics ==
    \E formId \in {Undefined, "form-1"}, fail \in {"none", "aggregate"} :
        GetDraftStatistics(formId, fail)

NextLife ==
    \/ LifeTick
    \/ LifeSave
    \/ LifeGet
    \/ LifeCleanup
    \/ LifeStatistics
    \/ TtlSweep

SpecLife == InitLife /\ [][NextLife]_vars

(***************************************************************************)
(* SpecUnique: the drafts of two sessions saved over and over with         *)
(* different progress, read, deleted, converted into submissions and       *)
(* swept, eight days passing at a time                                     *)
(***************************************************************************)
MaxUniqueTicks == 1
MaxUniqueStored == 1

UniqueTickMs == SevenDays + DayMs

\* what a session saves: one answer at step 0 or, the first session, two
\* answers at step 1
UniqueProgress(sessionId) ==
    {[answers |-> AnsweredName, currentStep |-> 0]}
    \cup {[answers |-> AnsweredName \o <<[k |-> <<"b">>, v |-> Str(<<"b">>)]>>,
            currentStep |-> 1] : s \in {sessionId} \cap {"session-10"}}

UniqueTick ==
    /\ now < MaxUniqueTicks * UniqueTickMs
    /\ Advance(UniqueTickMs)

UniqueSave ==
    \E sessionId \in LifeSessionIds, fail \in {"none", "findOneAndUpdate"} :
        \E p \in UniqueProgress(sessionId) :
            SaveKept(sessionId, p.answers, p.currentStep, fail)

UniqueGet == \E sessionId \in LifeSessionIds : GetDraft(sessionId, "none")

UniqueDelete ==
    \E sessionId \in LifeSessionIds, fail \in {"none", "deleteOne"} :
        DeleteDraft(sessionId, fail)

UniqueCleanup == CleanupExpiredDrafts("none")

UniqueConvert ==
    \E fail \in {"none", "deleteOne"} :
        /\ SubmitForm(Dto(NameQuestion, AnsweredName, "session-10", TRUE),
                      [ipAddress |-> "10.0.0.1"], fail)
        /\ Len(submissions') <= MaxUniqueStored

NextUnique ==
    \/ UniqueTick
    \/ UniqueSave
    \/ UniqueGet
    \/ UniqueDelete
    \/ UniqueCleanup
    \/ UniqueConvert
    \/ TtlSweep

SpecUnique == InitLife /\ [][NextUnique]_vars

(***************************************************************************)
(* SpecPages: GET forms/submissions under a range of limit and offset      *)
(* query parameters, on a store of up to MaxPagesStored submissions        *)
(***************************************************************************)
MaxPagesStored == 2

Query(s) == Str(s)

LimitQueries ==
    {Undef, Query(<<>>), Query(<<"0">>), Query(<<"1">>), Query(<<"5">>),
     Query(<<"1", "0", "0">>), Query(<<"1", "0", "1">>), Query(<<"-", "1">>),
     Query(<<"a", "b", "c">>), Query(<<"5", "x">>)}

OffsetQueries ==
    {Undef, Query(<<"0">>), Query(<<"1">>), Query(<<"-", "1">>), Query(<<"a", "b", "c">>)}

PagesSubmit ==
    /\ SubmitForm(Dto(NameQuestion, AnsweredName, Undefined, FALSE),
                  [ipAddress |-> "10.0.0.1"], "none")
    /\ Len(submissions') <= MaxPagesStored

PagesList ==
    \E limit \in LimitQueries, offset \in OffsetQueries, fail \in {"none", "find"} :
        ListSubmissions(limit, offset, fail)

NextPages == PagesSubmit \/ PagesList

SpecPages == Init /\ [][NextPages]_vars

(***************************************************************************)
(* SpecRace: two callers in submitForm at once.  Each await of submitForm  *)
(* gives way to the other caller: the protection is one step and the       *)
(* insert another.  arg keeps where each caller is: idle, guarded (past    *)
(* the protection, before the insert) or back with an outcome; seen is the *)
(* number of records stored when its protection ran, and stored the number *)
(* before its insert; a caller whose store call failed is back as failed   *)
(***************************************************************************)
MaxRaceStored == 3
MaxRaceTicks == 2

Callers == {1, 2}

RaceDto == Dto(NameQuestion, AnsweredName, "session-10", FALSE)
RaceMetadata == [ipAddress |-> "10.0.0.1"]

Idle == [pc |-> "idle", seen |-> 0, stored |-> 0, at |-> 0]

InitRace ==
    /\ InitStore
    /\ arg = [c \in Callers |-> Idle]
    /\ ret = Pending

RaceTick ==
    /\ now < MaxRaceTicks * TickMs
    /\ Advance(TickMs)

\* submitForm up to the end of await checkSubmissionProtection
RaceGuard(c) ==
    /\ arg[c].pc # "guarded"
    /\ Len(submissions) + Cardinality({d \in Callers : arg[d].pc = "guarded"}) < MaxRaceStored
    /\ \E first \in recentFirst(submissions, RaceDto.sessionId, now) :
       \E guard \in {checkSubmissionProtection(submissions, RaceDto.sessionId,
                                                ipAddressOf(RaceMetadata), now, first,
                                                "none")} :
        /\ submissions' = guard.collection
        /\ arg' = [arg EXCEPT ![c] =
                       [pc |-> IF guard.error = NoError THEN "guarded"
                               ELSE IF guard.error.class = "HttpException" THEN "rejected"
                               ELSE "failed",
                        seen |-> Len(submissions), stored |-> 0, at |-> now]]
        /\ last' = [op |-> "submitForm", sessionId |-> RaceDto.sessionId,
                    ipAddress |-> ipAddressOf(RaceMetadata), convertFromDraft |-> FALSE,
                    validation |-> Ok,
                    response |-> IF guard.error = NoError
                                 THEN Response(NoError, FALSE, "", "", 0)
                                 ELSE submitFormCatch(guard.error),
                    ops |-> guard.ops, at |-> now,
                    submissions |-> submissions, drafts |-> drafts]
        /\ UNCHANGED <<strictQuery, now, drafts, nextId, accepted, ret>>

\* mutant: the insert is refused when a record was stored since the protection
\* of this caller ran
RaceInsert_Rechecks(c, fail) ==
    /\ arg[c].pc = "guarded"
    /\ IF Len(submissions) # arg[c].seen \/ fail = "save"
       THEN /\ arg' = [arg EXCEPT ![c].pc = "rejected", ![c].stored = Len(submissions)]
            /\ UNCHANGED <<submissions, nextId, accepted>>
       ELSE /\ submissions' =
                   Append(submissions,
                          castDocument(newFormSubmission(RaceDto, RaceMetadata, now), nextId))
            /\ nextId' = nextId + 1
            /\ accepted' = Append(accepted, [submissionId |-> nextId,
                                             sessionId |-> RaceDto.sessionId,
                                             ipAddress |-> ipAddressOf(RaceMetadata),
                                             at |-> now])
            /\ arg' = [arg EXCEPT ![c].pc = "accepted", ![c].stored = Len(submissions),
                                  ![c].at = now]
    /\ UNCHANGED <<strictQuery, now, drafts, last, ret>>

\* submitForm from new this.formSubmissionModel(...) to the return: the insert
\* and the response, with nothing read again
RaceInsert(c, fail) ==
    /\ arg[c].pc = "guarded"
    /\ IF fail = "save"
       THEN /\ arg' = [arg EXCEPT ![c].pc = "failed", ![c].stored = Len(submissions)]
            /\ UNCHANGED <<submissions, nextId, accepted>>
       ELSE /\ submissions' =
                   Append(submissions,
                          castDocument(newFormSubmission(RaceDto, RaceMetadata, now), nextId))
            /\ nextId' = nextId + 1
            /\ accepted' = Append(accepted, [submissionId |-> nextId,
                                             sessionId |-> RaceDto.sessionId,
                                             ipAddress |-> ipAddressOf(RaceMetadata),
                                             at |-> now])
            /\ arg' = [arg EXCEPT ![c].pc = "accepted", ![c].stored = Len(submissions),
                                  ![c].at = now]
    /\ UNCHANGED <<strictQuery, now, drafts, last, ret>>

NextRace ==
    \/ RaceTick
    \/ \E c \in Callers : RaceGuard(c)
    \/ \E c \in Callers, fail \in {"none", "save"} : RaceInsert(c, fail)

SpecRace == InitRace /\ [][NextRace]_vars

(***************************************************************************)
(* SpecStats: getFormStatistics read by read, with submissions accepted    *)
(* between its reads.  arg keeps how far the call is and what it has read  *)
(***************************************************************************)
MaxStatsStored == 2
MaxStatsTicks == 1

NoStatistics == [pc |-> "idle", totalSubmissions |-> 0, submissionsByDate |-> <<>>]

InitStats ==
    /\ InitStore
    /\ arg = NoStatistics
    /\ ret = Pending

StatsTick ==
    /\ now < MaxStatsTicks * DayMs
    /\ Advance(DayMs)

StatsSubmit ==
    /\ SubmitForm(Dto(NameQuestion, AnsweredName, Undefined, FALSE),
                  [ipAddress |-> "10.0.0.1"], "none")
    /\ Len(submissions') <= MaxStatsStored

\* the end of getFormStatistics in its catch block
StatsFail(ops) ==
    /\ arg' = NoStatistics
    /\ ret' = Undef
    /\ last' = ReadCall("getFormStatistics", Undefined,
                        [thrown |-> ServiceError("Failed to fetch form statistics"),
                         ops |-> ops])

\* await countDocuments(filter)
StatsCount ==
    /\ arg.pc = "idle"
    /\ \E fail \in {"none", "countDocuments"} :
           IF fail = "none"
           THEN /\ arg' = [arg EXCEPT !.pc = "counted",
                                      !.totalSubmissions =
                                          countSubmissions(submissions, Undefined)]
                /\ UNCHANGED <<last, ret>>
           ELSE StatsFail(<<"countDocuments">>)
    /\ UNCHANGED <<strictQuery, now, submissions, drafts, nextId, accepted>>

\* await aggregate([... $group by date ...])
StatsByDate ==
    /\ arg.pc = "counted"
    /\ \E fail \in {"none", "aggregate"} :
           IF fail = "none"
           THEN /\ arg' = [arg EXCEPT !.pc = "dated",
                                      !.submissionsByDate =
                                          submissionsByDate(submissions, Undefined)]
                /\ UNCHANGED <<last, ret>>
           ELSE StatsFail(<<"countDocuments", "aggregate">>)
    /\ UNCHANGED <<strictQuery, now, submissions, drafts, nextId, accepted>>

\* await aggregate([... $avg ...]) and the return
StatsAverage ==
    /\ arg.pc = "dated"
    /\ \E fail \in {"none", "aggregate"} :
           IF fail = "none"
           THEN /\ arg' = NoStatistics
                /\ ret' = [totalSubmissions |-> arg.totalSubmissions,
                           submissionsByDate |-> arg.submissionsByDate,
                           averageQuestionsPerSubmission |->
                               averageQuestions(submissions, Undefined)]
                /\ last' = ReadCall("getFormStatistics", Undefined,
                                    [thrown |-> NoError,
                                     ops |-> <<"countDocuments", "aggregate", "aggregate">>])
           ELSE StatsFail(<<"countDocuments", "aggregate", "aggregate">>)
    /\ UNCHANGED <<strictQuery, now, submissions, drafts, nextId, accepted>>

NextStats == StatsTick \/ StatsSubmit \/ StatsCount \/ StatsByDate \/ StatsAverage

SpecStats == InitStats /\ [][NextStats]_vars

(***************************************************************************)
(* SpecUnblock: one session submitting at once, a quarter of a minute      *)
(* later, or more than five minutes later                                  *)
(***************************************************************************)
MaxUnblockStored == 3

\* the times at which the session submits
UnblockTimes ==
    {0, TickMs, FiveMinutes + 1000, FiveMinutes + 1000 + TickMs, 2 * (FiveMinutes + 1000)}

UnblockTick ==
    \E ms \in {TickMs, FiveMinutes + 1000} :
        /\ now + ms \in UnblockTimes
        /\ Advance(ms)

UnblockSubmit ==
    \E p \in SpecPayloads :
        /\ SubmitForm(Dto(p.questions, p.answers, "session-10", FALSE),
                      [ipAddress |-> "10.0.0.1"], "none")
        /\ Len(submissions') <= MaxUnblockStored

NextUnblock == UnblockTick \/ UnblockSubmit

SpecUnblock == Init /\ [][NextUnblock]_vars

(***************************************************************************)
(* What the claims speak of                                                *)
(***************************************************************************)
WaitRejection == HttpException("Please wait before submitting again")
TooManyAttemptsRejection == HttpException("Too many submission attempts")
IpRejection == HttpException("Too many submissions from this IP address")

\* the last call was a submitForm whose payload passes the validation and in
\* which no store call failed
ValidSubmit ==
    /\ last.op = "submitForm"
    /\ last.validation = Ok
    /\ last.response.errors # StoreError.message

\* the accepted submissions before the last call
Prior == IF last.response.success THEN SubSeq(accepted, 1, Len(accepted) - 1) ELSE accepted

\* the accepted submissions of the last call's session that the call finds
\* inside the trailing five minutes
PriorOfSession ==
    {i \in 1..Len(Prior) : /\ Prior[i].sessionId = last.sessionId
                           /\ Prior[i].at >= last.at - FiveMinutes}

PriorOfIp ==
    {i \in 1..Len(Prior) : /\ Prior[i].ipAddress = last.ipAddress
                           /\ Prior[i].at >= last.at - FiveMinutes}

Rejected == last.response.thrown.class \in {"BadRequestException", "HttpException"}

StoreUntouched == submissions = last.submissions /\ drafts = last.drafts

GuardOps == {"find", "updateOne", "countDocuments"}

\* C2: a submitForm of a session whose most recent accepted attempt is less than
\* 30 seconds old is rejected with the wait rejection and stores nothing.
C2_RapidAttemptRejected ==
    (/\ ValidSubmit
     /\ Truthy(last.sessionId)
     /\ \E i \in PriorOfSession : last.at - Prior[i].at < RAPID_SUBMISSION_MS)
    => (last.response.thrown = WaitRejection /\ submissions = last.submissions)

\* C3: the first valid submitForm of a session is accepted and its stored record
\* carries sessionId, submissionAttempts = 1 and lastSubmissionAttempt = submittedAt.
C3_FirstAttemptRecorded ==
    (/\ ValidSubmit
     /\ Truthy(last.sessionId)
     /\ PriorOfSession = {}
     /\ last.response.errors # StoreError.message)
    => /\ last.response.success
       /\ LET doc == submissions[Len(submissions)] IN
          /\ {"sessionId", "submissionAttempts", "lastSubmissionAttempt"} \subseteq DOMAIN doc
          /\ doc.sessionId = last.sessionId
          /\ doc.submissionAttempts = 1
          /\ doc.lastSubmissionAttempt = doc.submittedAt

\* C5: a submitForm without a sessionId is never rejected by a rule of the
\* protection, makes no store call of the protection and leaves the stored
\* submissions as they were.
C5_NoSessionSkipsGuard ==
    (last.op = "submitForm" /\ ~Truthy(last.sessionId))
    => /\ last.response.thrown.class # "HttpException"
       /\ \A k \in 1..Len(last.ops) : last.ops[k] \notin GuardOps
       /\ SubSeq(submissions, 1, Len(last.submissions)) = last.submissions

\* C5 happens: a submitForm without a sessionId is accepted although an accepted
\* submission from the same address is less than 30 seconds old
C5_Witness ==
    /\ last.op = "submitForm"
    /\ ~Truthy(last.sessionId)
    /\ last.response.success
    /\ \E i \in PriorOfIp : last.at - Prior[i].at < RAPID_SUBMISSION_MS

C7_OneRecordPerSuccess ==
    /\ Len(submissions) = Len(accepted)
    /\ \A i \in 1..Len(accepted) : submissions[i]._id = accepted[i].submissionId
    /\ \A i, j \in 1..Len(submissions) :
           submissions[i]._id = submissions[j]._id => i = j
    /\ (last.op = "submitForm" /\ ~last.response.success)
           => Len(submissions) = Len(last.submissions)
    /\ (last.op = "submitForm" /\ last.response.success)
           => Len(submissions) = Len(last.submissions) + 1
    /\ last.op # "submitForm" => submissions = last.submissions

\* C7 happens: two submissions are stored, the second by a draft-converting call
\* whose draft cleanup failed, and a draft operation follows
C7_Witness ==
    /\ Len(submissions) = 2
    /\ submissions[2].metadata.convertedFromDraft
    /\ \E i \in 1..Len(drafts) : drafts[i].sessionId = accepted[2].sessionId
    /\ last.op = "deleteDraft"


\* C1: the 4th submitForm of a session with 3 accepted submissions inside the
\* trailing five minutes, all more than 30 seconds apart and the last more than
\* 30 seconds ago, is rejected as too many attempts and stores nothing.
C1_FourthAttemptRejected ==
    (/\ ValidSubmit
     /\ Truthy(last.sessionId)
     /\ Cardinality(PriorOfSession) >= MAX_RECENT_ATTEMPTS
     /\ \A i, j \in PriorOfSession :
            i < j => Prior[j].at - Prior[i].at > RAPID_SUBMISSION_MS
     /\ \A i \in PriorOfSession : last.at - Prior[i].at > RAPID_SUBMISSION_MS)
    => (last.response.thrown = TooManyAttemptsRejection
        /\ submissions = last.submissions)

\* C4: a submitForm of a session from an address is rejected with the IP
\* rejection when 10 or more accepted submissions of that address lie inside
\* the trailing five minutes, whatever the session did before, and is not
\* rejected with it when fewer do.
C4_IpRuleRejects ==
    (ValidSubmit /\ Truthy(last.sessionId) /\ Truthy(last.ipAddress))
    => IF Cardinality(PriorOfIp) >= MAX_RECENT_IP_SUBMISSIONS
       THEN last.response.thrown = IpRejection
       ELSE last.response.thrown # IpRejection

\* C8: in every stored FormSubmission every answer key is the id of a stored
\* question, and every required question has an answer that is neither null
\* nor the empty string.
C8_StoredAnswerSetInvariant ==
    \A n \in 1..Len(submissions) :
        LET doc == submissions[n] IN
        /\ \A e \in 1..Len(doc.answers) :
               \E q \in 1..Len(doc.questions) : doc.questions[q].id = doc.answers[e].k
        /\ \A q \in 1..Len(doc.questions) :
               doc.questions[q].required =>
                   \E e \in 1..Len(doc.answers) :
                       /\ doc.answers[e].k = doc.questions[q].id
                       /\ ~IsEmptyAnswer(doc.answers[e].v)

\* C9: in every stored FormSubmission no two questions share an id.
C9_StoredQuestionIdsUnique ==
    \A n \in 1..Len(submissions) :
        \A i, j \in 1..Len(submissions[n].questions) :
            submissions[n].questions[i].id = submissions[n].questions[j].id => i = j

HasDuplicateId(questions) ==
    \E i, j \in 1..Len(questions) : i < j /\ questions[i].id = questions[j].id

\* the first position whose id repeats an earlier one
FirstRepeat(questions) ==
    CHOOSE j \in 1..Len(questions) :
        /\ \E i \in 1..(j - 1) : questions[i].id = questions[j].id
        /\ \A k \in 1..(j - 1) : \A i \in 1..(k - 1) : questions[i].id # questions[k].id

WellFormed(question) ==
    /\ question.id # <<>>
    /\ question.type \in QuestionType
    /\ question.title # <<>>
    /\ question.type = "multiple-choice" => question.options # <<>>

\* C10 as stated: a question list with a duplicate id is rejected with the
\* duplicate-id message, whatever else is in the list.
C10_DuplicateAlwaysReported ==
    (ret # Pending /\ HasDuplicateId(arg)) => ret.kind = "Duplicate question id"

\* C10 as amended: a question list with a duplicate id is always rejected; the
\* rejection is the duplicate-id message, for the first repeated id, exactly
\* when the list has at most 50 questions and every question before the first
\* repeat is well-formed.
C10_DuplicateReportedWhenFirst ==
    (ret # Pending /\ HasDuplicateId(arg)) =>
        LET j == FirstRepeat(arg)
            reached == /\ Len(arg) <= MAX_QUESTIONNAIRE_LENGTH
                       /\ \A k \in 1..(j - 1) : WellFormed(arg[k])
        IN  /\ ret # Ok
            /\ reached <=> ret.kind = "Duplicate question id"
            /\ reached => ret.ref = arg[j].id

\* C10 happens: the duplicate-id rejection for a list whose third question
\* repeats the id of its first
C10_Witness ==
    /\ ret.kind = "Duplicate question id"
    /\ Len(arg) = 3
    /\ arg[1].id = arg[3].id
    /\ arg[1].id # arg[2].id


\* the required questions of the list that the answers leave unanswered: the key
\* is absent, or its value is the empty string or null
Unanswered(questions, answers) ==
    {q \in 1..Len(questions) :
        /\ questions[q].required
        /\ \A e \in 1..Len(answers) :
               answers[e].k = questions[q].id => IsEmptyAnswer(answers[e].v)}

\* C11: when the answers leave a required question of a valid list unanswered,
\* validation rejects and the rejection cites the title of such a question.
C11_UnansweredRequiredRejected ==
    (ret # Pending /\ Unanswered(arg.questions, arg.answers) # {})
    => /\ ret.kind \in {"Required question must be answered", "Required question is missing"}
       /\ \E q \in Unanswered(arg.questions, arg.answers) : ret.ref = arg.questions[q].title

\* every answer belongs to a question of the list and, unless empty, meets the
\* constraint of the question's type
WithinTypeConstraints(questions, answers) ==
    \A e \in 1..Len(answers) :
        \E q \in 1..Len(questions) :
            /\ questions[q].id = answers[e].k
            /\ \/ IsEmptyAnswer(answers[e].v)
               \/ /\ answers[e].v.t = "string"
                  /\ CASE questions[q].type = "text" ->
                              Len(answers[e].v.v) <= MAX_ANSWER_LENGTH
                       [] questions[q].type = "email" ->
                              answers[e].v.v = <<"a", "@", "b", ".", "c">>
                       [] questions[q].type = "multiple-choice" ->
                              \E k \in 1..Len(questions[q].options) :
                                  questions[q].options[k] = answers[e].v.v

\* C12: when every required question of a valid list has a non-empty answer and
\* every answer is within the constraint of its question's type, validation
\* accepts.
C12_WellAnsweredAccepted ==
    (/\ ret # Pending
     /\ Unanswered(arg.questions, arg.answers) = {}
     /\ WithinTypeConstraints(arg.questions, arg.answers))
    => ret = Ok

\* C12 happens: two questions, a required text question answered with a string
\* of the greatest length allowed and an optional one answered with null
C12_Witness ==
    /\ ret = Ok
    /\ Len(arg.questions) = 2
    /\ \E q \in 1..2, e \in 1..Len(arg.answers) :
           /\ arg.questions[q].required
           /\ arg.questions[q].type = "text"
           /\ arg.answers[e].k = arg.questions[q].id
           /\ Len(arg.answers[e].v.v) = MAX_ANSWER_LENGTH
    /\ \E q \in 1..2, e \in 1..Len(arg.answers) :
           /\ ~arg.questions[q].required
           /\ arg.answers[e].k = arg.questions[q].id
           /\ arg.answers[e].v = Null


\* C13: sanitizing an already sanitized value changes nothing.
C13_SanitizeIdempotent ==
    (ret # Pending /\ ret.second # Pending) => ret.second = ret.first

\* the string between its first and its last character that is not whitespace
Trimmed(s) ==
    LET solid == {k \in 1..Len(s) : s[k] \notin Whitespace} IN
    IF solid = {} THEN <<>>
    ELSE SubSeq(s, CHOOSE k \in solid : \A m \in solid : k <= m,
                   CHOOSE k \in solid : \A m \in solid : k >= m)

WithoutAngles(s) == SelectSeq(s, LAMBDA c : c \notin {"<", ">"})

\* what C14 says of sanitize, value by value: a string is trimmed and loses its
\* angle brackets, an object keeps its keys and has every value sanitized, and
\* anything else is returned as it is
RECURSIVE Sanitized(_, _)
Sanitized(input, output) ==
    IF input.t = "string"
    THEN /\ output = Str(WithoutAngles(Trimmed(input.v)))
         /\ WithoutAngles(input.v) = input.v => output = Str(Trimmed(input.v))
    ELSE IF input.t = "object"
    THEN /\ output.t = "object"
         /\ Len(output.v) = Len(input.v)
         /\ \A i \in 1..Len(input.v) :
                /\ output.v[i].k = input.v[i].k
                /\ Sanitized(input.v[i].v, output.v[i].v)
    ELSE IF input.t = "array"
    THEN /\ Len(output.v) = Len(input.v)
         /\ \A i \in 1..Len(input.v) : Sanitized(input.v[i], output.v[i].v)
    ELSE output = input

\* C14: sanitize trims a string and removes every '<' and '>', sanitizes every
\* value of an object under its key, and passes other values through.
C14_SanitizeByKind ==
    ret # Pending => Sanitized(arg, ret.first)

\* C14 happens: an object with a nested object, whose strings lose whitespace
\* and angle brackets
C14_Witness ==
    /\ ret # Pending
    /\ arg.t = "object"
    /\ \E i \in 1..Len(arg.v) :
           /\ arg.v[i].v.t = "object"
           /\ \E j \in 1..Len(arg.v[i].v.v) :
                  /\ arg.v[i].v.v[j].v = Str(<<"<", " ", "a", ">">>)
                  /\ ret.first.v[i].v.v[j].v = Str(<<" ", "a">>)


\* the record an accepted call stored
Stored == submissions[Len(submissions)]

ServiceKeys == {"version", "source", "convertedFromDraft"}

\* C16: the stored metadata of an accepted submission has version '1.0.0',
\* source 'easyform-frontend' and the call's conversion flag whatever the
\* caller supplied under those names, and every other key of the caller with
\* the caller's value.
C16_ServiceKeysWin ==
    (arg # <<>> /\ last.response.success) =>
        /\ DOMAIN Stored.metadata = DOMAIN arg.metadata \cup ServiceKeys
        /\ Stored.metadata.version = "1.0.0"
        /\ Stored.metadata.source = "easyform-frontend"
        /\ Stored.metadata.convertedFromDraft = last.convertFromDraft
        /\ \A k \in DOMAIN arg.metadata \ ServiceKeys :
               Stored.metadata[k] = arg.metadata[k]

\* C16 happens: a caller who supplied all three service keys and a user agent,
\* in a call that does not convert a draft
C16_Witness ==
    /\ arg # <<>>
    /\ last.response.success
    /\ ServiceKeys \cup {"userAgent"} \subseteq DOMAIN arg.metadata
    /\ arg.metadata.version # "1.0.0"
    /\ arg.metadata.convertedFromDraft
    /\ ~last.convertFromDraft
    /\ Stored.metadata.userAgent = "agent"


Position(ops, op) == {k \in 1..Len(ops) : ops[k] = op}

\* the last call was a submitForm that asked for the conversion of a draft
Converting ==
    last.op = "submitForm" /\ last.convertFromDraft /\ Truthy(last.sessionId)

\* C17: a converting submitForm that is accepted has stored its record before it
\* asks for the delete of the session's draft, and is accepted with the record
\* kept whether or not the delete worked; one that is not accepted asks for no
\* delete and leaves the drafts as they were.
C17_DraftCleanupBestEffort ==
    Converting =>
        IF last.response.success
        THEN /\ Len(submissions) = Len(last.submissions) + 1
             /\ submissions[Len(submissions)]._id = last.response.submissionId
             /\ Position(last.ops, "deleteOne") # {}
             /\ \A d \in Position(last.ops, "deleteOne") :
                    \E s \in Position(last.ops, "save") : s < d
             /\ \/ drafts = SelectSeq(last.drafts, LAMBDA d : d.sessionId # last.sessionId)
                \/ drafts = last.drafts
        ELSE /\ Position(last.ops, "deleteOne") = {}
             /\ drafts = last.drafts
             /\ Len(submissions) = Len(last.submissions)

\* C17 happens: a converting submitForm is accepted and its record stored while
\* the draft of its session is still there, the delete having failed
C17_Witness ==
    /\ Converting
    /\ last.response.success
    /\ submissions[Len(submissions)].metadata.convertedFromDraft
    /\ \E i \in 1..Len(drafts) : drafts[i].sessionId = last.sessionId
    /\ Position(last.ops, "deleteOne") # {}

Envelope == Response(NoError, FALSE, "Form submission failed", StoreError.message, 0)

C19_NoRawStoreError ==
    last.response.thrown # StoreError


InvalidSessionRejection == BadRequestException("Invalid session ID format")

\* the last call carried no sessionId or one of 9 characters or fewer
ShortSessionId == ~Truthy(last.sessionId) \/ sessionIdLength(last.sessionId) <= 9

\* C20: saveDraft, getDraft and deleteDraft with a sessionId of 9 characters or
\* fewer are rejected with the invalid-session-id rejection, call the store not
\* at all and leave the drafts as they were; with 10 characters or more they
\* are never rejected so, and a saveDraft that the store carries out succeeds
\* and leaves exactly one draft of that sessionId.
C20_SessionIdLengthCheck ==
    last.op \in {"saveDraft", "getDraft", "deleteDraft"} =>
        IF ShortSessionId
        THEN /\ last.response.thrown = InvalidSessionRejection
             /\ last.response.thrown.class # "NotFoundException"
             /\ last.ops = <<>>
             /\ drafts = last.drafts
        ELSE /\ last.response.thrown # InvalidSessionRejection
             /\ last.op = "saveDraft" =>
                    \/ /\ last.response.success
                       /\ Cardinality({i \in 1..Len(drafts) :
                                          drafts[i].sessionId = last.sessionId}) = 1
                    \/ /\ last.response.message = "Failed to save draft"
                       /\ drafts = last.drafts

\* C20 happens: a saveDraft with a sessionId of exactly 10 characters succeeds
\* on a store that held no draft of it
C20_Witness ==
    /\ last.op = "saveDraft"
    /\ Truthy(last.sessionId)
    /\ sessionIdLength(last.sessionId) = MIN_SESSION_ID_LENGTH
    /\ last.response.success
    /\ \A i \in 1..Len(last.drafts) : last.drafts[i].sessionId # last.sessionId
    /\ \E i \in 1..Len(drafts) : drafts[i].sessionId = last.sessionId

\* the drafts stored when the last operation began, as a set of positions
Before == 1..Len(last.drafts)

\* the operation answered without throwing
Answered(op) == last.op = op /\ last.response.thrown = NoError

CleanedUp ==
    /\ Answered("cleanupExpiredDrafts")
    /\ ret.message = "Successfully cleaned up expired drafts"

\* C21: a draft whose expiresAt has passed is never returned by getDraft while
\* it is still stored; cleanupExpiredDrafts deletes exactly the drafts whose
\* expiresAt has passed, counts them in its result and leaves the drafts whose
\* expiresAt is in the future in place, where getDraft still returns them;
\* getDraftStatistics counts and dates the drafts that have not expired only
C21_ExpiredDraftsSwept ==
    /\ Answered("getDraft") /\ ret # Null => ret.expiresAt > last.at
    /\ Answered("getDraft") =>
           \A i \in Before :
               /\ last.drafts[i].sessionId = last.sessionId
               /\ last.drafts[i].expiresAt > last.at
               => /\ ret # Null
                  /\ ret.sessionId = last.sessionId
                  /\ ret.expiresAt = last.drafts[i].expiresAt
    /\ CleanedUp =>
           /\ ret.deletedCount =
                  Cardinality({i \in Before : last.drafts[i].expiresAt < last.at})
           /\ drafts = SelectSeq(last.drafts, LAMBDA d : d.expiresAt >= last.at)
           /\ \A i \in Before :
                  last.drafts[i].expiresAt > last.at
                  => \E j \in 1..Len(drafts) : drafts[j] = last.drafts[i]
    /\ Answered("getDraftStatistics") =>
           LET fresh == {i \in Before : last.drafts[i].expiresAt > last.at}
               ofForm == {i \in fresh : last.drafts[i].formId = "form-1"}
           IN  /\ ret.totalDrafts \in {Cardinality(fresh), Cardinality(ofForm)}
               /\ ret.totalDrafts > 0 =>
                      \E i, j \in fresh :
                          /\ ret.oldestDraft = last.drafts[i].lastModified
                          /\ ret.newestDraft = last.drafts[j].lastModified

\* C21 witness: a cleanup has deleted an expired draft and left one that
\* expires later
C21_Witness ==
    /\ CleanedUp
    /\ ret.deletedCount >= 1
    /\ Len(drafts) >= 1
    /\ \A j \in 1..Len(drafts) : drafts[j].expiresAt > last.at

\* C22: at most one draft is stored per sessionId, whatever saves, deletes,
\* cleanups and converting submissions came before, and a draft that getDraft
\* returns has the answers and the currentStep of the latest successful save
\* of its session
C22_OneDraftPerSession ==
    /\ \A i, j \in 1..Len(drafts) : drafts[i].sessionId = drafts[j].sessionId => i = j
    /\ Answered("getDraft") /\ ret # Null =>
           /\ arg[last.sessionId].saved
           /\ ret.answers = arg[last.sessionId].answers
           /\ ret.currentStep = arg[last.sessionId].currentStep

\* C22 witness: getDraft returns a draft of a session that saved twice, with a
\* different currentStep each time
C22_Witness ==
    /\ Answered("getDraft")
    /\ ret # Null
    /\ arg[last.sessionId].earlier \notin {-1, ret.currentStep}

\* the positions in the drafts stored before the last operation that hold a
\* draft of the session the operation was about
OfSession == {i \in Before : last.drafts[i].sessionId = last.sessionId}

DraftNotFound == NotFoundException("Draft not found")

\* a deleteDraft whose store call went through
Deleting ==
    /\ last.op = "deleteDraft"
    /\ last.ops = <<"deleteOne">>
    /\ last.response.message # "Failed to delete draft"

\* C24: a deleteDraft that reaches the store removes the draft stored under its
\* sessionId and no other; it signals not-found exactly when no draft is stored
\* under that sessionId, and otherwise reports success; a getDraft of the same
\* session that follows a successful delete returns null
C24_DeleteRemovesOneDraft ==
    /\ Deleting =>
           /\ last.response.thrown = DraftNotFound <=> OfSession = {}
           /\ last.response.success <=> OfSession # {}
           /\ drafts = SelectSeq(last.drafts, LAMBDA d : d.sessionId # last.sessionId)
    /\ /\ Answered("getDraft")
       /\ arg[last.sessionId].saved
       /\ OfSession = {}
       => ret = Null

\* C24 witness: a successful deleteDraft with the draft of the other session
\* left in the store
C24_Witness ==
    /\ Deleting
    /\ last.response.success
    /\ Len(drafts) >= 1
    /\ Len(last.drafts) = Len(drafts) + 1

\* the query parameter is written as a decimal integer
Integral(param) ==
    /\ Given(param)
    /\ LET digits == IF param.v[1] = "-" THEN Tail(param.v) ELSE param.v
       IN  digits # <<>> /\ \A i \in 1..Len(digits) : IsDigit(digits[i])

Listed == last.op = "listSubmissions"

\* C23: in GET forms/submissions a limit that is an integer outside 1..100 or
\* an offset that is a negative integer ends the request in an error without
\* the service being called; without parameters the service is called with
\* limit 10 and offset 0; and the service is never called with a limit outside
\* 1..100 or with a negative offset
C23_PaginationChecked ==
    Listed =>
        /\ \/ Integral(arg.query.limit) /\ parseInt(arg.query.limit.v).n \notin 1..100
           \/ Integral(arg.query.offset) /\ parseInt(arg.query.offset.v).n < 0
           => ~arg.called /\ last.response.thrown.class = "Error"
        /\ arg.query.limit = Undef /\ arg.query.offset = Undef =>
               arg.called /\ arg.limit = Number(10) /\ arg.offset = Number(0)
        /\ arg.called =>
               /\ ~arg.limit.nan /\ arg.limit.n \in 1..100
               /\ ~arg.offset.nan /\ arg.offset.n >= 0

Bookkeeping == {"submissionAttempts", "lastSubmissionAttempt"}

\* the stored record at position i was given one more attempt at the time of
\* the last call, and is otherwise as it was
Counted(i) ==
    /\ Bookkeeping \subseteq DOMAIN last.submissions[i]
    /\ Bookkeeping \subseteq DOMAIN submissions[i]
    /\ submissions[i].submissionAttempts = last.submissions[i].submissionAttempts + 1
    /\ submissions[i].lastSubmissionAttempt = last.at
    /\ \A j \in 1..Len(last.submissions) :
           last.submissions[j].lastSubmissionAttempt
               <= last.submissions[i].lastSubmissionAttempt
    /\ \A p \in DOMAIN submissions[i] \ Bookkeeping :
           submissions[i][p] = last.submissions[i][p]

\* no record was added other than the one of an accepted submission, and the
\* questions, the answers and the submittedAt of the stored records are as
\* they were
StoredRecordsKept ==
    /\ Len(submissions) =
           Len(last.submissions) + (IF last.response.success THEN 1 ELSE 0)
    /\ \A j \in 1..Len(last.submissions) :
           /\ submissions[j].questions = last.submissions[j].questions
           /\ submissions[j].answers = last.submissions[j].answers
           /\ submissions[j].submittedAt = last.submissions[j].submittedAt

\* C25: a submitForm that the guard lets through for a session with accepted
\* attempts inside the trailing five minutes (fewer than three, the latest 30
\* seconds old or more) adds one attempt to exactly one record stored before,
\* the one with the most recent lastSubmissionAttempt, and sets its
\* lastSubmissionAttempt to now; no operation adds a record other than the one
\* of an accepted submission, and none changes the questions, the answers or
\* the submittedAt of a stored record
C25_GuardBookkeeping ==
    /\ /\ ValidSubmit
       /\ Truthy(last.sessionId)
       /\ PriorOfSession # {}
       /\ Cardinality(PriorOfSession) < MAX_RECENT_ATTEMPTS
       /\ \A i \in PriorOfSession : last.at - Prior[i].at >= RAPID_SUBMISSION_MS
       /\ last.response.success
       => \E i \in 1..Len(last.submissions) :
              /\ Counted(i)
              /\ \A j \in 1..Len(last.submissions) :
                     j # i => submissions[j] = last.submissions[j]
    /\ StoredRecordsKept

\* C26: nothing holds the store between the protection and the insert of a
\* submitForm: a caller that came through the protection is accepted when it
\* inserts, whatever the other caller stored in between, so that two callers
\* of one session can both come through the protection before either inserts
\* and both be accepted less than 30 seconds apart
C26_GuardThenInsertNotAtomic ==
    \A c \in Callers :
        /\ arg[c].pc \in {"accepted", "rejected"} /\ arg[c].stored > arg[c].seen
           => arg[c].pc = "accepted"
        /\ arg[c].pc = "accepted" =>
               \E i \in 1..Len(accepted) :
                   /\ accepted[i].sessionId = RaceDto.sessionId
                   /\ accepted[i].at = arg[c].at
                   /\ \E j \in 1..Len(submissions) :
                          submissions[j]._id = accepted[i].submissionId

\* C26 witness: both callers were accepted for the one session less than 30
\* seconds apart, each having come through the protection on a store without
\* a record and the second having inserted after the first
C26_Witness ==
    /\ \A c \in Callers : arg[c].pc = "accepted" /\ arg[c].seen = 0
    /\ \E c \in Callers : arg[c].stored = 1
    /\ Len(submissions) = 2
    /\ Len(accepted) = 2
    /\ accepted[1].sessionId = accepted[2].sessionId
    /\ accepted[2].at - accepted[1].at < RAPID_SUBMISSION_MS

\* the latest successful saveDraft of the session of the last operation
LatestSave == arg[last.sessionId]

\* C27: a successful saveDraft at time t leaves the draft of its session with
\* expiresAt = t + 7 days; getDraft returns the draft of a session at every
\* time before the latest successful save of the session plus 7 days, with
\* that expiresAt, and returns null at that time and at every time after it
C27_DraftExpiresAfterSevenDays ==
    /\ last.op = "saveDraft" /\ last.response.success =>
           \E i \in 1..Len(drafts) :
               /\ drafts[i].sessionId = last.sessionId
               /\ drafts[i].expiresAt = last.at + SevenDays
    /\ Answered("getDraft") /\ LatestSave.saved =>
           IF last.at < LatestSave.at + SevenDays
           THEN /\ ret # Null
                /\ ret.sessionId = last.sessionId
                /\ ret.expiresAt = LatestSave.at + SevenDays
           ELSE ret = Null
    /\ Answered("getDraft") /\ ~LatestSave.saved => ret = Null

\* C27 witness: getDraft returns null exactly 7 days after the latest save of
\* the session, with the draft still stored
C27_Witness ==
    /\ Answered("getDraft")
    /\ LatestSave.saved
    /\ last.at = LatestSave.at + SevenDays
    /\ OfSession # {}
    /\ ret = Null

\* C28: in every result of getFormStatistics totalSubmissions is the sum of
\* the counts of submissionsByDate, whether or not submissions are accepted
\* while the statistics are read
C28_StatisticsSnapshot ==
    Answered("getFormStatistics") =>
        ret.totalSubmissions = SumOver(DOMAIN ret.submissionsByDate, ret.submissionsByDate)

FreshOfSession == {i \in OfSession : last.drafts[i].expiresAt > last.at}

\* C30: a getDraft with a well-formed sessionId changes no draft and ends in
\* one of three ways: it returns the draft of the session that has not
\* expired, it returns null when there is none, or it throws the not-found
\* error 'Draft not found'; it answers with no failure envelope and lets no
\* other error through
C30_GetDraftNeverEnvelope ==
    last.op = "getDraft" /\ ~invalidSessionId(last.sessionId) =>
        /\ drafts = last.drafts
        /\ last.ops = <<"findOne">>
        /\ \/ /\ last.response.thrown = NoError
              /\ ret = Null
              /\ FreshOfSession = {}
           \/ /\ last.response.thrown = NoError
              /\ \E i \in FreshOfSession :
                     ret = [sessionId |-> last.drafts[i].sessionId,
                            formId |-> last.drafts[i].formId,
                            answers |-> last.drafts[i].answers,
                            currentStep |-> last.drafts[i].currentStep,
                            lastModified |-> last.drafts[i].lastModified,
                            expiresAt |-> last.drafts[i].expiresAt]
           \/ /\ last.response.thrown = DraftNotFound
              /\ ret = Undef

\* C30 witness: getDraft throws not-found for a session whose draft is stored
\* and has not expired, the read of the store having failed
C30_Witness ==
    /\ last.op = "getDraft"
    /\ last.response.thrown = DraftNotFound
    /\ FreshOfSession # {}
    /\ drafts = last.drafts

====
